---- MODULE Spec2Model ----
(***************************************************************************)
(* A model of libmdcpp (src/lib): the Document life cycle (read, write,    *)
(* writeTokens and the processing passes), the link reference table        *)
(* (LinkIds) and the emphasis resolution of RawText.                       *)
(*                                                                         *)
(* Text is a sequence of one-character strings.  A token is a record       *)
(*   [kind, text, info, sub]                                               *)
(* where kind is the token class, text the string of a TextHolder, info    *)
(* the info string of a FencedCodeBlock and sub the children of a          *)
(* Container.                                                              *)
(***************************************************************************)
EXTENDS Integers, Sequences, FiniteSets, TLC

VARIABLES
    mTokenContainer,  \* Document: the root token::Container
    mIdTable,         \* Document: the LinkIds table, key -> [url, title]
    mProcessed,       \* Document: mProcessed
    wasProcessed,     \* history: mProcessed as the last call found it
    lastCall,         \* the last call made on the Document
    readResult,       \* what the last read() returned
    readInput,        \* the input of the last call when it was a read()
    linesRead,        \* history: the line tokens of the accepted reads
    passLog,          \* history: the processing passes run so far, in order
    hlCalls,          \* the highlighter: the calls it received in the last call
    fenceOut,         \* the fenced blocks the last call rendered, in order
    lkTable,          \* LinkIds: mTable of a table driven directly
    lkAdds,           \* history: the add() calls made on lkTable, in order
    lkFound,          \* the last find() on lkTable and its result
    fcTokens,         \* fence pass: tokens->subTokens() being scanned
    fcPos,            \* fence pass: the cursor ii (1-based), Len+1 is iie
    fcOut,            \* fence pass: the list processed
    fcSpans,          \* history: the input positions each token of fcOut covers
    emTgt,            \* emphasis: the list tgt of markers
    emPc,             \* emphasis: position in _processBoldAndItalicSpans
    emI,              \* emphasis: the outer cursor ii (1-based)
    emJ,              \* emphasis: the inner cursor iii (1-based)
    emId,             \* emphasis: the counter id
    emStack,          \* emphasis: the stack openMatches (uids, top last)
    emNext,           \* emphasis: the next fresh marker identity
    emSplits,         \* history: the splits made, <<uid of the 3-run, uid1, uid2>>
    emHtml,           \* emphasis: what each marker of tgt wrote, in list order
    spText,           \* spans: the text of the RawText that is resolved
    spIdTable,        \* spans: the link reference table handed in
    spPc,             \* spans: the sub-pass that ran last
    spStr,            \* spans: str, the text with placeholders
    spReplacements,   \* spans: the ReplacementTable
    spTgt,            \* spans: the token list of _processBoldAndItalicSpans
    spOut,            \* spans: the html written for the resolved tokens
    rdIn,             \* reader: the characters of the stream in
    rdPos,            \* reader: the read position of the stream (1-based)
    rdTgt,            \* reader: the list tgt of Document::read
    rdPc,             \* reader: "reading" in the loop of read, then "done"
    bkIn,             \* passes: the lines the container starts with
    bkToks,           \* passes: the subtokens the running pass goes over
    bkPos,            \* passes: the cursor of the running loop (1-based)
    bkSt,             \* passes: processed, accu, isPrevParagraph, isPrevBlockQuote
    bkTable,          \* passes: the link reference table
    bkPc,             \* passes: the place in _process that comes next
    bkSub,            \* passes: isBlockQuote and subitem of the loop body
    bkCall,           \* history: the recognizer call made last
    bkOut,            \* passes: the container after the paragraph pass
    enSrc,            \* encoding: the argument src of encodeString
    enFlags,          \* encoding: the argument encodingFlags, a set of names
    enOut,            \* encoding: the string encodeString returned
    enPc              \* encoding: "call" before the call, then "done"

vars == <<mTokenContainer, mIdTable, mProcessed, wasProcessed, lastCall,
          readResult, readInput, linesRead, passLog, hlCalls, fenceOut, lkTable, lkAdds, lkFound,
          fcTokens, fcPos, fcOut, fcSpans,
          emTgt, emPc, emI, emJ, emId, emStack, emNext, emSplits, emHtml,
          spText, spIdTable, spPc, spStr, spReplacements, spTgt, spOut,
          rdIn, rdPos, rdTgt, rdPc,
          bkIn, bkToks, bkPos, bkSt, bkTable, bkPc, bkSub, bkCall, bkOut,
          enSrc, enFlags, enOut, enPc>>

docVars == <<mTokenContainer, mIdTable, mProcessed, wasProcessed, lastCall,
             readResult, readInput, linesRead, passLog, hlCalls, fenceOut>>
lkVars == <<lkTable, lkAdds, lkFound>>
fcVars == <<fcTokens, fcPos, fcOut, fcSpans>>
emVars == <<emTgt, emPc, emI, emJ, emId, emStack, emNext, emSplits>>
wrVars == <<emHtml>>
spVars == <<spText, spIdTable, spPc, spStr, spReplacements, spTgt, spOut>>
rdVars == <<rdIn, rdPos, rdTgt, rdPc>>
bkVars == <<bkIn, bkToks, bkPos, bkSt, bkTable, bkPc, bkSub, bkCall, bkOut>>
enVars == <<enSrc, enFlags, enOut, enPc>>

----------------------------------------------------------------------------
(* Characters and strings                                                  *)

Lower == {"a","b","c","d","e","f","g","h","i","j","k","l","m",
          "n","o","p","q","r","s","t","u","v","w","x","y","z"}
Upper == {"A","B","C","D","E","F","G","H","I","J","K","L","M",
          "N","O","P","Q","R","S","T","U","V","W","X","Y","Z"}
Digit == {"0","1","2","3","4","5","6","7","8","9"}
AlNum == Lower \cup Upper \cup Digit

NL == "\n"
SP == " "
\* the grave accent (backtick) character, written as a name
BQ == "grave"

Min(S) == CHOOSE x \in S : \A y \in S : x <= y
Max(S) == CHOOSE x \in S : \A y \in S : x >= y

\* s[a..b), positions are 1-based; the substring string(si, sie) of the code
Sub(s, a, b) == IF a >= b THEN <<>> ELSE SubSeq(s, a, b - 1)

\* the sequences ss[lo..hi] one after the other
RECURSIVE Flat(_, _, _)
Flat(ss, lo, hi) ==
    IF lo > hi THEN <<>>
    ELSE IF lo = hi THEN ss[lo]
    ELSE Flat(ss, lo, (lo + hi) \div 2) \o Flat(ss, (lo + hi) \div 2 + 1, hi)

Concat(ss) == Flat(ss, 1, Len(ss))

\* string(n, ' ')
Spaces(n) == [k \in 1..n |-> SP]

\* number of leading characters of s, from position i, that are in cs
RECURSIVE Run(_, _, _)
Run(s, i, cs) ==
    IF i <= Len(s) /\ s[i] \in cs THEN 1 + Run(s, i + 1, cs) ELSE 0

----------------------------------------------------------------------------
(* Regular expressions (boost::regex, Perl syntax, default flags).         *)
(* A pattern is a record; Ends(r, s, i) is the set of positions j such     *)
(* that r matches s[i..j).  With the default flags '.' matches every       *)
(* character, '^' matches at the start of the text and after a newline,    *)
(* '$' at the end of the text and before a newline.                        *)

Chr(cs) == [t |-> "set", cs |-> cs]
NotChr(cs) == [t |-> "nset", cs |-> cs]
Dot == [t |-> "any"]
Bol == [t |-> "bol"]
Eol == [t |-> "eol"]
Cat(rs) == [t |-> "seq", rs |-> rs]
Alt(rs) == [t |-> "alt", rs |-> rs]
Rep(r, lo, hi) == [t |-> "rep", r |-> r, lo |-> lo, hi |-> hi]  \* hi = -1: unbounded
Star(r) == Rep(r, 0, -1)
Plus(r) == Rep(r, 1, -1)
Opt(r) == Rep(r, 0, 1)
Lit(s) == Cat([k \in 1..Len(s) |-> Chr({s[k]})])

RECURSIVE Ends(_, _, _), EndsSeq(_, _, _), EndsExactly(_, _, _, _), EndsClosure(_, _, _, _, _)
Ends(r, s, i) ==
    CASE r.t = "set"  -> IF i <= Len(s) /\ s[i] \in r.cs THEN {i + 1} ELSE {}
      [] r.t = "nset" -> IF i <= Len(s) /\ s[i] \notin r.cs THEN {i + 1} ELSE {}
      [] r.t = "any"  -> IF i <= Len(s) THEN {i + 1} ELSE {}
      [] r.t = "bol"  -> IF i = 1 \/ s[i - 1] = NL THEN {i} ELSE {}
      [] r.t = "eol"  -> IF i = Len(s) + 1 \/ s[i] = NL THEN {i} ELSE {}
      [] r.t = "seq"  -> EndsSeq(r.rs, s, {i})
      [] r.t = "alt"  -> UNION {Ends(r.rs[k], s, i) : k \in 1..Len(r.rs)}
      [] r.t = "rep"  ->
            LET base == EndsExactly(r.r, s, {i}, r.lo)
            IN  EndsClosure(r.r, s, base, base,
                            IF r.hi < 0 THEN Len(s) + 1 ELSE r.hi - r.lo)

EndsSeq(rs, s, from) ==
    IF rs = <<>> \/ from = {} THEN from
    ELSE EndsSeq(Tail(rs), s, UNION {Ends(Head(rs), s, j) : j \in from})

EndsExactly(r, s, from, n) ==
    IF n = 0 \/ from = {} THEN from
    ELSE EndsExactly(r, s, UNION {Ends(r, s, j) : j \in from}, n - 1)

EndsClosure(r, s, acc, front, k) ==
    IF front = {} \/ k = 0 THEN acc
    ELSE LET nxt == UNION {Ends(r, s, j) : j \in front} \ acc
         IN  EndsClosure(r, s, acc \cup nxt, nxt, k - 1)

\* regex_match: the pattern matches the whole text
RegexMatch(r, s) == (Len(s) + 1) \in Ends(r, s, 1)

\* regex_search: the start positions, in s from position from on, of a match
SearchStarts(r, s, from) == {p \in from..(Len(s) + 1) : Ends(r, s, p) # {}}

----------------------------------------------------------------------------
(* Regular expressions with captures.  The matcher follows the Perl rules  *)
(* of boost::regex: alternatives are tried left to right, a greedy         *)
(* repetition tries one more round first, a lazy one tries to stop first,  *)
(* and the first way that lets the rest of the pattern match is taken.     *)
(* The text handed to the matcher is the range [first, last) the code      *)
(* searches, so a look-behind sees nothing before it.                      *)

Lazy(r, lo, hi) == [t |-> "lazy", r |-> r, lo |-> lo, hi |-> hi]
Grp(n, r) == [t |-> "grp", n |-> n, r |-> r]          \* capture group n
Ref(n) == [t |-> "ref", n |-> n]                      \* \n
Ahead(r, yes) == [t |-> "ahead", r |-> r, yes |-> yes]      \* (?=r), (?!r)
Behind(cs, yes) == [t |-> "behind", cs |-> cs, yes |-> yes] \* (?<=[cs]), (?<![cs])

\* const string literal as a pattern element list
Str(str) == [k \in 1..Len(str) |-> Chr({str[k]})]

\* the ways the pattern r matches s from position i on, with the captures
\* caps made so far, in the order the matcher tries them: a sequence of
\* [e, caps]; caps[n] is <<first, second>>, <<0, 0>> while group n has not
\* matched
RECURSIVE MatchFrom(_, _, _, _), MatchSeq(_, _, _, _, _), MatchRounds(_, _, _, _, _)
MatchFrom(r, s, i, caps) ==
    LET here == <<[e |-> i, caps |-> caps]>>
        fits(c) == \/ r.r.t = "any"
                   \/ r.r.t = "set" /\ c \in r.r.cs
                   \/ r.r.t = "nset" /\ c \notin r.r.cs
        \* the most characters a repeated character can take here
        run == Min({k \in 0..(Len(s) + 1 - i) :
                       \/ k = Len(s) + 1 - i
                       \/ k = r.hi
                       \/ ~fits(s[i + k])})
        grouped(ws) == [k \in 1..Len(ws) |->
                           [ws[k] EXCEPT !.caps[r.n] = <<i, ws[k].e>>]]
    IN  CASE r.t = "set"  -> IF i <= Len(s) /\ s[i] \in r.cs
                             THEN <<[e |-> i + 1, caps |-> caps]>> ELSE <<>>
          [] r.t = "nset" -> IF i <= Len(s) /\ s[i] \notin r.cs
                             THEN <<[e |-> i + 1, caps |-> caps]>> ELSE <<>>
          [] r.t = "any"  -> IF i <= Len(s)
                             THEN <<[e |-> i + 1, caps |-> caps]>> ELSE <<>>
          [] r.t = "bol"  -> IF i = 1 \/ s[i - 1] = NL THEN here ELSE <<>>
          [] r.t = "eol"  -> IF i = Len(s) + 1 \/ s[i] = NL THEN here ELSE <<>>
          [] r.t = "end"  -> IF i = Len(s) + 1 THEN here ELSE <<>>
          [] r.t = "seq"  -> MatchSeq(r.rs, 1, Len(r.rs), s, here)
          [] r.t = "alt"  ->
                Flat([k \in 1..Len(r.rs) |-> MatchFrom(r.rs[k], s, i, caps)],
                     1, Len(r.rs))
          [] r.t \in {"rep", "lazy"} ->
                IF r.r.t \in {"set", "nset", "any"}
                THEN \* a repeated character: greedy tries the larger counts
                     \* first, lazy the smaller ones
                     [j \in 1..(run + 1 - r.lo) |->
                         [e |-> i + (IF r.t = "rep" THEN run + 1 - j
                                     ELSE r.lo + j - 1),
                          caps |-> caps]]
                ELSE MatchRounds(r, s, i, caps, 0)
          [] r.t = "grp"  -> grouped(MatchFrom(r.r, s, i, caps))
          [] r.t = "ref"  ->
                LET w == Sub(s, caps[r.n][1], caps[r.n][2]) IN
                IF caps[r.n] # <<0, 0>> /\ i + Len(w) <= Len(s) + 1
                   /\ Sub(s, i, i + Len(w)) = w
                THEN <<[e |-> i + Len(w), caps |-> caps]>> ELSE <<>>
          [] r.t = "ahead" ->
                IF (MatchFrom(r.r, s, i, caps) # <<>>) = r.yes THEN here ELSE <<>>
          [] r.t = "behind" ->
                IF (i > 1 /\ s[i - 1] \in r.cs) = r.yes THEN here ELSE <<>>

\* the ways the pattern elements rs[lo..hi] match one after the other, from
\* each of the ways ws made so far
MatchSeq(rs, lo, hi, s, ws) ==
    IF lo > hi \/ ws = <<>> THEN ws
    ELSE IF lo = hi
    THEN Flat([k \in 1..Len(ws) |-> MatchFrom(rs[lo], s, ws[k].e, ws[k].caps)],
              1, Len(ws))
    ELSE MatchSeq(rs, (lo + hi) \div 2 + 1, hi, s,
                  MatchSeq(rs, lo, (lo + hi) \div 2, s, ws))

\* the ways of a repetition after n rounds: a round that takes no character
\* is not repeated
MatchRounds(r, s, i, caps, n) ==
    LET stop == IF n >= r.lo THEN <<[e |-> i, caps |-> caps]>> ELSE <<>>
        more(round) ==
            Flat([k \in 1..Len(round) |->
                     IF round[k].e > i \/ n < r.lo
                     THEN MatchRounds(r, s, round[k].e, round[k].caps,
                                      IF round[k].e > i THEN n + 1 ELSE r.lo)
                     ELSE <<>>],
                 1, Len(round))
        all(ways) == IF r.t = "rep" THEN ways \o stop ELSE stop \o ways
    IN  all(more(IF n = r.hi THEN <<>> ELSE MatchFrom(r.r, s, i, caps)))

\* smatch after regex_search(first, last, m, r): the leftmost match in s,
\* from position p on, of the pattern r with ng capture groups:
\* [ok, a, e, caps], the match is s[a..e)
SearchFrom(r, s, p, ng) ==
    LET none == [n \in 1..ng |-> <<0, 0>>]
        found(a, ws) == [ok |-> TRUE, a |-> a, e |-> ws[1].e, caps |-> ws[1].caps]
        first(ways) ==
            LET starts == {a \in DOMAIN ways : ways[a] # <<>>} IN
            IF starts = {}
            THEN [ok |-> FALSE, a |-> Len(s) + 1, e |-> Len(s) + 1, caps |-> none]
            ELSE found(Min(starts), ways[Min(starts)])
    IN  first([a \in p..(Len(s) + 1) |-> MatchFrom(r, s, a, none)])

regex_search(s, r, ng) == SearchFrom(r, s, 1, ng)

\* smatch after regex_match(s, m, r): the pattern matches all of s
regex_match(s, r, ng) ==
    LET none == [n \in 1..ng |-> <<0, 0>>]
        with(ws) == IF ws = <<>> THEN [ok |-> FALSE, a |-> 1, e |-> 1, caps |-> none]
                    ELSE [ok |-> TRUE, a |-> 1, e |-> ws[1].e, caps |-> ws[1].caps]
    IN  with(MatchFrom(Cat(<<r, [t |-> "end"]>>), s, 1, none))

\* m[n].matched and the text of m[n]
Matched(m, n) == m.caps[n] # <<0, 0>>
Capture(s, m, n) == Sub(s, m.caps[n][1], m.caps[n][2])

----------------------------------------------------------------------------
(* Tokens                                                                  *)

Tok(kind, text) == [kind |-> kind, text |-> text, info |-> <<>>, sub |-> <<>>]
RawText(text) == Tok("RawText", text)
BlankLine(text) == Tok("BlankLine", text)
FencedCodeBlock(text, info) ==
    [kind |-> "FencedCodeBlock", text |-> text, info |-> info, sub |-> <<>>]
Group(kind, sub) == [kind |-> kind, text |-> <<>>, info |-> <<>>, sub |-> sub]

ContainerKinds ==
    {"Container", "InlineHtmlBlock", "Paragraph", "BlockQuote", "Header",
     "ListItem", "UnorderedList", "OrderedList"}

\* Token::text(): the classes derived from TextHolder hold a string
hasText(tok) == tok.kind \notin ContainerKinds
\* Token::isBlankLine()
tokIsBlankLine(tok) == tok.kind = "BlankLine"
\* Token::canContainMarkup(): only RawText built with its default flag
canContainMarkup(tok) == tok.kind = "RawText"
\* Token::isContainer()
isContainer(tok) == tok.kind \in ContainerKinds

\* what stands in a token list at the place where the code has undefined
\* behaviour: what names the operation (the value of an empty optional,
\* the token behind the end of a list).  Nothing is known of the program
\* from there on; the loop that meets it is left
Undefined(what) == Tok("Undefined", <<what>>)

\* the token list or a list below it holds such a place
RECURSIVE holdsUndefined(_)
holdsUndefined(toks) ==
    \E k \in 1..Len(toks) :
        toks[k].kind = "Undefined" \/ holdsUndefined(toks[k].sub)

----------------------------------------------------------------------------
(* Line reader                                                             *)

cSpacesPerInitialTab == 4
cSpacesPerTab == 4

\* " {0,3}(<--(.*)-- *> *)* *"
cBlankLineExpression ==
    Cat(<<Rep(Chr({SP}), 0, 3),
          Star(Cat(<<Lit(<<"<", "-", "-">>), Star(Dot), Lit(<<"-", "-">>),
                     Star(Chr({SP})), Chr({">"}), Star(Chr({SP}))>>)),
          Star(Chr({SP}))>>)

isBlankLine(line) == RegexMatch(cBlankLineExpression, line)

\* _getline as it would be if the second character of a pair of line
\* breaks were left in the stream
RECURSIVE GetlineKeepingPair(_, _, _, _)
GetlineKeepingPair(in, p, line, initialWhitespace) ==
    IF p > Len(in) THEN [ok |-> line # <<>>, line |-> line, pos |-> p]
    ELSE LET c == in[p] IN
         CASE c \in {"\r", "\n"} -> [ok |-> TRUE, line |-> line, pos |-> p + 1]
           [] c = "\t" ->
                LET convert == IF initialWhitespace THEN cSpacesPerInitialTab
                               ELSE cSpacesPerTab
                IN  GetlineKeepingPair(in, p + 1,
                                line \o Spaces(convert - (Len(line) % convert)),
                                initialWhitespace)
           [] OTHER ->
                GetlineKeepingPair(in, p + 1, Append(line, c),
                                   initialWhitespace /\ c = SP)

\* Document::_getline from stream position p: [ok, line, pos]
RECURSIVE GetlineFrom(_, _, _, _)
GetlineFrom(in, p, line, initialWhitespace) ==
    IF p > Len(in) THEN [ok |-> line # <<>>, line |-> line, pos |-> p]
    ELSE LET c == in[p] IN
         CASE c = "\r" ->
                [ok |-> TRUE, line |-> line,
                 pos |-> IF p + 1 <= Len(in) /\ in[p + 1] = "\n" THEN p + 2 ELSE p + 1]
           [] c = "\n" ->
                [ok |-> TRUE, line |-> line,
                 pos |-> IF p + 1 <= Len(in) /\ in[p + 1] = "\r" THEN p + 2 ELSE p + 1]
           [] c = "\t" ->
                LET convert == IF initialWhitespace THEN cSpacesPerInitialTab
                               ELSE cSpacesPerTab
                IN  GetlineFrom(in, p + 1,
                                line \o Spaces(convert - (Len(line) % convert)),
                                initialWhitespace)
           [] OTHER ->
                GetlineFrom(in, p + 1, Append(line, c),
                            initialWhitespace /\ c = SP)

_getline(in, p) == GetlineFrom(in, p, <<>>, TRUE)

\* the while loop of Document::read: the list tgt built from the stream
RECURSIVE ReadTokens(_, _)
ReadTokens(in, p) ==
    LET g == _getline(in, p) IN
    IF ~g.ok THEN <<>>
    ELSE <<IF isBlankLine(g.line) THEN BlankLine(g.line) ELSE RawText(g.line)>>
         \o ReadTokens(in, g.pos)

\* Container::appendSubtokens
appendSubtokens(subTokens, tgt) == subTokens \o tgt

----------------------------------------------------------------------------
(* Fenced code blocks (first pass)                                         *)

FenceChars == {BQ, "~"}

\* isCodeFenceBeginLine: [ok, indent, length, fence, info]; info keeps the
\* empty string of the caller when the line ends right after the fence
isCodeFenceBeginLine(line) ==
    LET begins(indent, fence, length) ==
            LET rest == Sub(line, indent + 1 + length, Len(line) + 1)
                no   == [ok |-> FALSE, indent |-> indent, length |-> 0,
                         fence |-> fence, info |-> <<>>]
            IN  IF indent > 3 THEN no
                ELSE IF fence \notin FenceChars THEN no
                ELSE IF length < 3 THEN [no EXCEPT !.length = length]
                ELSE [ok |-> \A k \in 1..Len(rest) : rest[k] # BQ,
                      indent |-> indent, length |-> length, fence |-> fence,
                      info |-> rest]
        fenced(indent, fence) ==
            begins(indent, fence, Run(line, indent + 1, {fence}))
        indented(indent) ==
            fenced(indent, IF indent + 1 <= Len(line) THEN line[indent + 1]
                           ELSE "NUL")
    IN  indented(Run(line, 1, {SP}))

\* isCodeFenceEndLine as it would be if the closing run were measured
\* against the shortest fence, three characters, and not against openLen
endLineOfAnyLength(line, indent, openLen, fence) ==
    LET closes(n1, n2, closeLen) ==
            LET sj == n1 + n2 + 1 + closeLen IN
            IF n1 + n2 > 3 THEN FALSE
            ELSE IF closeLen < 3 THEN FALSE
            ELSE sj + Run(line, sj, {SP, "\t"}) = Len(line) + 1
        ends(n1) ==
            IF closes(n1, Min({4 - n1, Run(line, n1 + 1, {SP})}),
                      Run(line, n1 + 1 + Min({4 - n1, Run(line, n1 + 1, {SP})}),
                          {fence}))
            THEN [end |-> TRUE, out |-> <<>>]
            ELSE [end |-> FALSE, out |-> Sub(line, n1 + 1, Len(line) + 1) \o <<NL>>]
    IN  ends(Min({indent, Run(line, 1, {SP})}))

\* isCodeFenceEndLine: [end, out]; out is what the call appends to the
\* block's contents (nothing when the line closes the fence)
isCodeFenceEndLine(line, indent, openLen, fence) ==
    LET \* n1 and n2 spaces are skipped by the first and the second loop
        closes(n1, n2, closeLen) ==
            LET sj == n1 + n2 + 1 + closeLen IN
            IF n1 + n2 > 3 THEN FALSE
            ELSE IF closeLen < openLen THEN FALSE
            ELSE sj + Run(line, sj, {SP, "\t"}) = Len(line) + 1
        ends(n1) ==
            IF closes(n1, Min({4 - n1, Run(line, n1 + 1, {SP})}),
                      Run(line, n1 + 1 + Min({4 - n1, Run(line, n1 + 1, {SP})}),
                          {fence}))
            THEN [end |-> TRUE, out |-> <<>>]
            ELSE [end |-> FALSE, out |-> Sub(line, n1 + 1, Len(line) + 1) \o <<NL>>]
    IN  ends(Min({indent, Run(line, 1, {SP})}))

\* the while loop of parseFencedCodeBlock from cursor i: [i, out]
RECURSIVE FenceBody(_, _, _, _)
FenceBody(toks, i, b, out) ==
    LET line(e) == IF e.end THEN [i |-> i, out |-> out]
                   ELSE FenceBody(toks, i + 1, b, out \o e.out)
    IN  IF i > Len(toks) THEN [i |-> i, out |-> out]
        ELSE line(isCodeFenceEndLine(toks[i].text, b.indent, b.length, b.fence))

\* Document::parseFencedCodeBlock at cursor i: [ok, tok, i]; i is the cursor
\* as the call leaves it
parseFencedCodeBlock(toks, i) ==
    LET none == [ok |-> FALSE, tok |-> toks[i], i |-> i]
        \* the block of the opening line b whose lines the loop w has taken;
        \* unclosed code blocks are closed by the end of the document
        block(b, w) ==
            [ok |-> TRUE, tok |-> FencedCodeBlock(w.out, b.info),
             i |-> IF w.i > Len(toks) THEN w.i - 1 ELSE w.i]
        opened(b) ==
            IF ~b.ok THEN none ELSE block(b, FenceBody(toks, i + 1, b, <<>>))
    IN  IF ~tokIsBlankLine(toks[i]) /\ hasText(toks[i]) /\ canContainMarkup(toks[i])
        THEN opened(isCodeFenceBeginLine(toks[i].text))
        ELSE none

\* one iteration of the for loop of _processFencedBlocks at cursor ii:
\* the token pushed on processed and the cursor after the loop's ++ii
FencedBlocksStep(toks, ii) ==
    LET step(r) == [tok |-> IF r.ok THEN r.tok ELSE toks[ii], next |-> r.i + 1]
    IN  step(parseFencedCodeBlock(toks, ii))

RECURSIVE FencedBlocksFrom(_, _)
FencedBlocksFrom(toks, ii) ==
    LET rest(st) == <<st.tok>> \o FencedBlocksFrom(toks, st.next) IN
    IF ii > Len(toks) THEN <<>> ELSE rest(FencedBlocksStep(toks, ii))

\* Document::_processFencedBlocks
_processFencedBlocks(toks) == FencedBlocksFrom(toks, 1)

----------------------------------------------------------------------------
(* HTML tags                                                               *)

DQ == "\""
SQ == "'"

\* std::tolower on one character
LowerOf(c) ==
    CASE c = "A" -> "a"
      [] c = "B" -> "b"
      [] c = "C" -> "c"
      [] c = "D" -> "d"
      [] c = "E" -> "e"
      [] c = "F" -> "f"
      [] c = "G" -> "g"
      [] c = "H" -> "h"
      [] c = "I" -> "i"
      [] c = "J" -> "j"
      [] c = "K" -> "k"
      [] c = "L" -> "l"
      [] c = "M" -> "m"
      [] c = "N" -> "n"
      [] c = "O" -> "o"
      [] c = "P" -> "p"
      [] c = "Q" -> "q"
      [] c = "R" -> "r"
      [] c = "S" -> "s"
      [] c = "T" -> "t"
      [] c = "U" -> "u"
      [] c = "V" -> "v"
      [] c = "W" -> "w"
      [] c = "X" -> "x"
      [] c = "Y" -> "y"
      [] c = "Z" -> "z"
      [] OTHER -> c

\* boost::algorithm::to_lower, and transform(..., tolower)
ToLower(str) == [k \in 1..Len(str) |-> LowerOf(str[k])]

\* cOtherTagInit, as initTag stores it (the trailing '/' removed)
otherTags ==
    {<<"t","i","t","l","e">>, <<"l","i","n","k">>,
     <<"s","c","r","i","p","t">>, <<"s","t","y","l","e">>,
     <<"o","b","j","e","c","t">>, <<"m","e","t","a">>, <<"e","m">>,
     <<"s","t","r","o","n","g">>, <<"q">>, <<"c","i","t","e">>,
     <<"d","f","n">>, <<"a","b","b","r">>, <<"a","c","r","o","n","y","m">>,
     <<"c","o","d","e">>, <<"s","a","m","p">>, <<"k","b","d">>,
     <<"v","a","r">>, <<"s","u","b">>, <<"s","u","p">>, <<"d","e","l">>,
     <<"i","n","s">>, <<"i","s","i","n","d","e","x">>, <<"a">>,
     <<"i","m","g">>, <<"b","r">>, <<"m","a","p">>, <<"a","r","e","a">>,
     <<"o","b","j","e","c","t">>, <<"p","a","r","a","m">>,
     <<"a","p","p","l","e","t">>, <<"s","p","a","n">>}

\* cBlockTagInit, as initTag stores it
blockTags ==
    {<<"a","d","d","r","e","s","s">>, <<"a","r","t","i","c","l","e">>,
     <<"a","s","i","d","e">>, <<"b","a","s","e">>,
     <<"b","a","s","e","f","o","n","t">>,
     <<"b","l","o","c","k","q","u","o","t","e">>, <<"b","o","d","y">>,
     <<"c","a","p","t","i","o","n">>, <<"c","e","n","t","e","r">>,
     <<"c","o","l">>, <<"c","o","l","g","r","o","u","p">>, <<"d","d">>,
     <<"d","e","t","a","i","l","s">>, <<"d","i","r">>, <<"d","i","v">>,
     <<"d","l">>, <<"d","t">>, <<"f","i","e","l","d","s","e","t">>,
     <<"f","i","g","c","a","p","t","i","o","n">>,
     <<"f","i","g","u","r","e">>, <<"f","o","o","t","e","r">>,
     <<"f","o","r","m">>, <<"f","r","a","m","e">>,
     <<"f","r","a","m","e","s","e","t">>, <<"h","1">>, <<"h","2">>,
     <<"h","3">>, <<"h","4">>, <<"h","5">>, <<"h","6">>, <<"u","l">>,
     <<"h","e","a","d">>, <<"h","e","a","d","e","r">>, <<"h","r">>,
     <<"h","t","m","l">>, <<"i","f","r","a","m","e">>,
     <<"l","e","g","e","n","d">>, <<"l","i">>, <<"l","i","n","k">>,
     <<"m","a","i","n">>, <<"m","e","n","u">>,
     <<"m","e","n","u","i","t","e","m">>, <<"m","e","t","a">>,
     <<"n","a","v">>, <<"n","o","f","r","a","m","e","s">>, <<"o","l">>,
     <<"o","p","t","g","r","o","u","p">>, <<"o","p","t","i","o","n">>,
     <<"p">>, <<"p","a","r","a","m">>, <<"s","e","c","t","i","o","n">>,
     <<"s","o","u","r","c","e">>, <<"s","u","m","m","a","r","y">>,
     <<"t","a","b","l","e">>, <<"t","b","o","d","y">>, <<"t","r">>,
     <<"t","h">>, <<"t","d">>, <<"t","h","e","a","d">>,
     <<"t","f","o","o","t">>, <<"t","i","t","l","e">>,
     <<"t","r","a","c","k">>, <<"u","l">>}

\* isValidTag(tag, nonBlockFirst)
isValidTag(tag, nonBlockFirst) ==
    LET TAG == ToLower(tag) IN
    IF nonBlockFirst
    THEN IF TAG \in otherTags THEN 1 ELSE IF TAG \in blockTags THEN 2 ELSE 0
    ELSE IF TAG \in blockTags THEN 2 ELSE IF TAG \in otherTags THEN 1 ELSE 0

\* ( +[a-zA-Z0-9]+?(?: ?= ?("|').*?\5)): one attribute; the back reference is
\* written out as the two quote characters
HtmlAttribute ==
    Cat(<<Plus(Chr({SP})), Plus(Chr(AlNum)), Opt(Chr({SP})), Chr({"="}),
          Opt(Chr({SP})),
          Alt(<<Cat(<<Chr({DQ}), Star(Dot), Chr({DQ})>>),
                Cat(<<Chr({SQ}), Star(Dot), Chr({SQ})>>)>>)>>)

\* the part of cHtmlTokenSource between '<' and '>'
HtmlTagInner ==
    Cat(<<Opt(Chr({"/"})), Plus(Chr(AlNum)), Star(HtmlAttribute),
          Star(Chr({SP})), Opt(Chr({"/"})), Star(Chr({SP}))>>)

cHtmlTokenExpression == Cat(<<Chr({"<"}), HtmlTagInner, Chr({">"})>>)
cStartHtmlTokenExpression == Cat(<<Bol, cHtmlTokenExpression>>)
cOneHtmlTokenExpression == Cat(<<Bol, cHtmlTokenExpression, Eol>>)

\* parseHtmlTag(begin, end, flags): [ok, tagName]; regex_search takes the
\* leftmost match, whose tag name is the run of [a-zA-Z0-9] after '<' or '</'
parseHtmlTag(text, alone) ==
    LET tagAt(n) == [ok |-> TRUE, tagName |-> Sub(text, n, n + Run(text, n, AlNum))]
        found(starts) ==
            IF starts = {} THEN [ok |-> FALSE, tagName |-> <<>>]
            ELSE tagAt(IF text[Min(starts) + 1] = "/" THEN Min(starts) + 2
                       ELSE Min(starts) + 1)
    IN  found(SearchStarts(IF alone THEN cOneHtmlTokenExpression
                           ELSE cStartHtmlTokenExpression, text, 1))

\* parseInlineHtmlText from position prev: the tags and the text between them
RECURSIVE InlineHtmlTextFrom(_, _)
InlineHtmlTextFrom(src, prev) ==
    LET tag(first, second) ==
            (IF prev # first
             THEN <<Tok("InlineHtmlContents", Sub(src, prev, first))>>
             ELSE <<>>)
            \o <<Tok("HtmlTag", Sub(src, first + 1, second - 1))>>
            \o InlineHtmlTextFrom(src, second)
        from(first) == tag(first, Min(Ends(cHtmlTokenExpression, src, first)))
        found(starts) ==
            IF starts = {}
            THEN <<Tok("InlineHtmlContents", Sub(src, prev, Len(src) + 1) \o <<NL>>)>>
            ELSE from(Min(starts))
    IN  found(SearchStarts(cHtmlTokenExpression, src, prev))

parseInlineHtmlText(src) == InlineHtmlTextFrom(src, 1)

\* "^<!--"
isHtmlCommentStart(text) ==
    SearchStarts(Cat(<<Bol, Lit(<<"<", "!", "-", "-">>)>>), text, 1) # {}

\* ".*-- *>$"
isHtmlCommentEnd(text) ==
    RegexMatch(Cat(<<Star(Dot), Lit(<<"-", "-">>), Star(Chr({SP})),
                     Chr({">"}), Eol>>), text)

\* the do-while loop of parseInlineHtml (tag or comment) from cursor i:
\* [contents, prevLine, lines]
RECURSIVE InlineHtmlLoop(_, _, _, _, _, _)
InlineHtmlLoop(toks, i, firstLine, contents, lines, isTag) ==
    LET n    == i + 1
        done == /\ n <= Len(toks)
                /\ tokIsBlankLine(toks[n])
                /\ hasText(toks[i])
                /\ \/ i = firstLine
                   \/ IF isTag THEN parseHtmlTag(toks[i].text, TRUE).ok
                      ELSE isHtmlCommentEnd(toks[i].text)
        next(c2) ==
            IF n <= Len(toks) /\ ~done
            THEN InlineHtmlLoop(toks, n, firstLine, c2, lines + 1, isTag)
            ELSE [contents |-> c2, prevLine |-> i, lines |-> lines + 1]
    IN  next(contents \o
             (IF hasText(toks[i])
              THEN IF isTag THEN parseInlineHtmlText(toks[i].text)
                   ELSE <<Tok("InlineHtmlComment", toks[i].text \o <<NL>>)>>
              ELSE <<toks[i]>>))

\* parseInlineHtml at cursor i: [ok, tok, i]
parseInlineHtml(toks, i) ==
    LET none == [ok |-> FALSE, tok |-> toks[i], i |-> i]
        block(w) == [ok |-> TRUE, tok |-> Group("InlineHtmlBlock", w.contents),
                     i |-> w.prevLine]
        tagBlock(w, blockTag) == IF w.lines > 1 \/ blockTag THEN block(w) ELSE none
        start(line, tagInfo) ==
            IF tagInfo.ok /\ isValidTag(tagInfo.tagName, FALSE) > 1
            THEN tagBlock(InlineHtmlLoop(toks, i, i, <<>>, 0, TRUE),
                          isValidTag(tagInfo.tagName, TRUE) > 1)
            ELSE IF isHtmlCommentStart(line)
            THEN block(InlineHtmlLoop(toks, i, i, <<>>, 0, FALSE))
            ELSE none
    IN  IF ~hasText(toks[i]) THEN none
        ELSE start(toks[i].text, parseHtmlTag(toks[i].text, FALSE))

----------------------------------------------------------------------------
(* Link reference table (LinkIds)                                          *)

EmptyTable == <<>>

Target(url, title) == [url |-> url, title |-> title]

\* _scrubKey as it would be without the call of to_lower
keyAsGiven(str) == str

\* LinkIds::_scrubKey
_scrubKey(str) == ToLower(str)

\* add as it would be with mTable[key] = target in the place of insert
addOverwriting(mTable, id, url, title) ==
    [k \in DOMAIN mTable \cup {_scrubKey(id)} |->
        IF k = _scrubKey(id) THEN Target(url, title) ELSE mTable[k]]

\* LinkIds::add: std::..map::insert keeps the element already stored under
\* an equal key
LinkIds_add(mTable, id, url, title) ==
    LET key == _scrubKey(id) IN
    IF key \in DOMAIN mTable THEN mTable
    ELSE [k \in DOMAIN mTable \cup {key} |->
             IF k = key THEN Target(url, title) ELSE mTable[k]]

\* LinkIds::find: [found, target]
LinkIds_find(mTable, id) ==
    LET key == _scrubKey(id) IN
    IF key \in DOMAIN mTable THEN [found |-> TRUE, target |-> mTable[key]]
    ELSE [found |-> FALSE, target |-> Target(<<>>, <<>>)]

----------------------------------------------------------------------------
(* Multi-line HTML tags (second pass)                                      *)

\* "<((/?)([a-zA-Z0-9]+)(?:( +[a-zA-Z0-9]+?(?: ?= ?(\"|').*?\\5))*? */? *))$"
cHtmlTokenStart == Cat(<<Chr({"<"}), HtmlTagInner, Eol>>)

\* "^ *((?:( +[a-zA-Z0-9]+?(?: ?= ?(\"|').*?\\3))*? */? *))>"
cHtmlTokenEnd ==
    Cat(<<Bol, Star(Chr({SP})), Star(HtmlAttribute), Star(Chr({SP})),
          Opt(Chr({"/"})), Star(Chr({SP})), Chr({">"})>>)

RECURSIVE MergeFrom(_, _)
MergeFrom(toks, i) ==
    IF i > Len(toks) THEN <<>>
    ELSE IF /\ hasText(toks[i])
            /\ RegexMatch(cHtmlTokenStart, toks[i].text)
            /\ i + 1 <= Len(toks)
            /\ hasText(toks[i + 1])
            /\ RegexMatch(cHtmlTokenEnd, toks[i + 1].text)
         THEN <<RawText(toks[i].text \o <<SP>> \o toks[i + 1].text)>>
              \o MergeFrom(toks, i + 2)
         ELSE <<toks[i]>> \o MergeFrom(toks, i + 1)

\* Document::_mergeMultilineHtmlTags
_mergeMultilineHtmlTags(toks) == MergeFrom(toks, 1)

----------------------------------------------------------------------------
(* Inline HTML and link references (third pass)                            *)

\* the title part of cReference: (?: *(?:('|\")(.*)\\3)|(?:\\((.*)\\)))
RefTitle ==
    Alt(<<Cat(<<Star(Chr({SP})),
                Alt(<<Cat(<<Chr({SQ}), Star(Dot), Chr({SQ})>>),
                      Cat(<<Chr({DQ}), Star(Dot), Chr({DQ})>>)>>)>>),
          Cat(<<Chr({"("}), Star(Dot), Chr({")"})>>)>>)

\* what follows the url in cReference: >?(title)?$
RefAfterUrl == Cat(<<Opt(Chr({">"})), Opt(RefTitle), Eol>>)

\* what follows the id in cReference: \]: +<?([^ >]+)>?(title)?$
RefAfterId ==
    Cat(<<Chr({"]"}), Chr({":"}), Plus(Chr({SP})), Opt(Chr({"<"})),
          Plus(NotChr({SP, ">"})), RefAfterUrl>>)

\* the title captured from the text after the url (and after its '>'):
\* [matched, title]
RefTitleOf(rest) ==
    LET n == Len(rest)
        k == Run(rest, 1, {SP}) + 1
    IN  IF n - k >= 1 /\ rest[k] \in {SQ, DQ} /\ rest[n] = rest[k]
        THEN [matched |-> TRUE, title |-> Sub(rest, k + 1, n)]
        ELSE IF n >= 2 /\ rest[1] = "(" /\ rest[n] = ")"
        THEN [matched |-> TRUE, title |-> Sub(rest, 2, n)]
        ELSE [matched |-> FALSE, title |-> <<>>]

\* regex_match(line1, m, cReference): [ok, id, url, titled, title]; the
\* captures are those of the first match in the order the quantifiers try
\* (greedy: the longest id, an opening '<' taken, the longest url, a
\* closing '>' taken, a title taken)
matchReference(line) ==
    LET n     == Len(line)
        none  == [ok |-> FALSE, id |-> <<>>, url |-> <<>>, titled |-> FALSE,
                  title |-> <<>>]
        urlOk(a, u) == /\ u > a
                       /\ \A j \in a..(u - 1) : line[j] \notin {SP, ">"}
                       /\ (n + 1) \in Ends(RefAfterUrl, line, u)
        \* the match with the id line[k+2..e), the url line[a..u) and the
        \* title ti
        match(k, e, a, u, ti) ==
            [ok |-> TRUE, id |-> Sub(line, k + 2, e), url |-> Sub(line, a, u),
             titled |-> ti.matched, title |-> ti.title]
        urlEnd(k, e, a, u) ==
            match(k, e, a, u,
                  RefTitleOf(Sub(line,
                      IF /\ u <= n /\ line[u] = ">"
                         /\ (n + 1) \in Ends(Cat(<<Opt(RefTitle), Eol>>), line, u + 1)
                      THEN u + 1 ELSE u,
                      n + 1)))
        \* t is where the url or its '<' starts
        urlStart(k, e, t, endsA) ==
            IF endsA # {} THEN urlEnd(k, e, t + 1, Max(endsA))
            ELSE urlEnd(k, e, t, Max({u \in (t + 1)..(n + 1) : urlOk(t, u)}))
        idEnds(k, e, t) ==
            urlStart(k, e, t,
                     IF line[t] = "<"
                     THEN {u \in (t + 2)..(n + 1) : urlOk(t + 1, u)}
                     ELSE {})
        ids(k, idEnd) ==
            IF k > 3 \/ k + 1 > n \/ line[k + 1] # "[" \/ idEnd = {} THEN none
            ELSE idEnds(k, Max(idEnd),
                        Max(idEnd) + 2 + Run(line, Max(idEnd) + 2, {SP}))
        indented(k) ==
            ids(k, {e \in (k + 3)..n : (n + 1) \in Ends(RefAfterId, line, e)})
    IN  indented(Run(line, 1, {SP}))

\* regex_match(line2, m, cSeparateTitle): [ok, title]
\* "^ *(?:(?:('|\")(.*)\\1)|(?:\\((.*)\\))) *$"
matchSeparateTitle(line) ==
    LET n == Len(line)
        k == Run(line, 1, {SP}) + 1
        \* the closing quote or parenthesis: the last one followed by spaces only
        closers(c) == {e \in (k + 1)..n :
                          line[e] = c /\ \A j \in (e + 1)..n : line[j] = SP}
    IN  IF k <= n /\ line[k] \in {SQ, DQ} /\ closers(line[k]) # {}
        THEN [ok |-> TRUE, title |-> Sub(line, k + 1, Max(closers(line[k])))]
        ELSE IF k <= n /\ line[k] = "(" /\ closers(")") # {}
        THEN [ok |-> TRUE, title |-> Sub(line, k + 1, Max(closers(")")))]
        ELSE [ok |-> FALSE, title |-> <<>>]

\* parseReference at cursor i: [ok, i, idTable]
parseReference(toks, i, idTable) ==
    LET none == [ok |-> FALSE, i |-> i, idTable |-> idTable]
        titled(m, m2) ==
            [ok |-> TRUE, i |-> IF m2.ok THEN i + 1 ELSE i,
             idTable |-> LinkIds_add(idTable, m.id, m.url,
                                     IF m.titled THEN m.title ELSE m2.title)]
        matched(m) ==
            IF ~m.ok THEN none
            ELSE titled(m, IF ~m.titled /\ i + 1 <= Len(toks) /\ hasText(toks[i + 1])
                           THEN matchSeparateTitle(toks[i + 1].text)
                           ELSE [ok |-> FALSE, title |-> <<>>])
    IN  IF ~hasText(toks[i]) THEN none
        ELSE matched(matchReference(toks[i].text))

\* the for loop as it would be if a link reference definition were
\* recorded and its line kept in the token stream
RECURSIVE referencesKeptInStream(_, _, _, _)
referencesKeptInStream(toks, ii, processed, idTable) ==
    LET reference(r) ==
            referencesKeptInStream(toks, ii + 1, Append(processed, toks[ii]),
                                   r.idTable)
        inlineHtml(h) ==
            IF h.ok
            THEN referencesKeptInStream(toks, h.i + 1, Append(processed, h.tok),
                                        idTable)
            ELSE reference(parseReference(toks, ii, idTable))
    IN  IF ii > Len(toks) THEN [toks |-> processed, idTable |-> idTable]
        ELSE IF ~hasText(toks[ii])
        THEN referencesKeptInStream(toks, ii + 1, Append(processed, toks[ii]),
                                    idTable)
        ELSE inlineHtml(IF processed = <<>>
                           \/ tokIsBlankLine(processed[Len(processed)])
                        THEN parseInlineHtml(toks, ii)
                        ELSE [ok |-> FALSE, tok |-> toks[ii], i |-> ii])

\* the for loop of _processInlineHtmlAndReferences from cursor ii:
\* [toks, idTable]
RECURSIVE InlineHtmlAndReferencesFrom(_, _, _, _)
InlineHtmlAndReferencesFrom(toks, ii, processed, idTable) ==
    LET reference(r) ==
            IF r.ok
            THEN InlineHtmlAndReferencesFrom(toks, r.i + 1, processed, r.idTable)
            ELSE InlineHtmlAndReferencesFrom(toks, ii + 1,
                                             Append(processed, toks[ii]), idTable)
        inlineHtml(h) ==
            IF h.ok
            THEN InlineHtmlAndReferencesFrom(toks, h.i + 1,
                                             Append(processed, h.tok), idTable)
            ELSE reference(parseReference(toks, ii, idTable))
    IN  IF ii > Len(toks) THEN [toks |-> processed, idTable |-> idTable]
        ELSE IF ~hasText(toks[ii])
        THEN InlineHtmlAndReferencesFrom(toks, ii + 1, Append(processed, toks[ii]),
                                         idTable)
        ELSE inlineHtml(IF processed = <<>>
                           \/ tokIsBlankLine(processed[Len(processed)])
                        THEN parseInlineHtml(toks, ii)
                        ELSE [ok |-> FALSE, tok |-> toks[ii], i |-> ii])

\* Document::_processInlineHtmlAndReferences: [toks, idTable]
_processInlineHtmlAndReferences(toks, idTable) ==
    InlineHtmlAndReferencesFrom(toks, 1, <<>>, idTable)

----------------------------------------------------------------------------
(* Block items (fourth pass)                                               *)

\* countQuoteLevel
countQuoteLevel(prefixString) ==
    Cardinality({k \in 1..Len(prefixString) : prefixString[k] = ">"})

\* (?: {0,3}>)
QuoteMark == Cat(<<Rep(Chr({SP}), 0, 3), Chr({">"})>>)

\* the token parseBlockQuote makes of a captured content m[2]
QuoteLineToken(content) ==
    IF ~isBlankLine(content) THEN RawText(content) ELSE BlankLine(content)

\* where the content m[2] starts when the prefix m[1] ends before position e:
\* the optional space of " ?" is taken when it is there
QuoteContentStart(line, e) ==
    IF e <= Len(line) /\ line[e] = SP THEN e + 1 ELSE e

\* the while loop of parseBlockQuote from cursor i: [subTokens, i]; the
\* continuation expression is "^((?: {0,3}>){quoteLevel}) ?(.*)$".  The loop
\* reads *(*i)->text() of every token it meets, also of a token without
\* text, where text() is an empty optional
RECURSIVE QuoteContinuation(_, _, _, _)
QuoteContinuation(toks, i, quoteLevel, subTokens) ==
    LET content(line, c) ==
            QuoteContinuation(toks, i + 1, quoteLevel,
                Append(subTokens, QuoteLineToken(Sub(line, c, Len(line) + 1))))
        prefix(line, pe) ==
            IF pe = {} THEN [subTokens |-> subTokens, i |-> i]
            ELSE content(line, QuoteContentStart(line, Max(pe)))
    IN  IF i > Len(toks) THEN [subTokens |-> subTokens, i |-> i]
        ELSE IF ~hasText(toks[i])
        THEN [subTokens |->
                  Append(subTokens,
                         Undefined("parseBlockQuote: *text() of a token without text")),
              i |-> i]
        ELSE prefix(toks[i].text,
                    Ends(Cat(<<Bol, Rep(QuoteMark, quoteLevel, quoteLevel)>>),
                         toks[i].text, 1))

\* parseBlockQuote(subTokens, i, end): [ok, subTokens, i]
\* cBlockQuoteExpression is "^((?: {0,3}>)+) ?(.*)$"
parseBlockQuote(subTokens, toks, i) ==
    LET none == [ok |-> FALSE, subTokens |-> subTokens, i |-> i]
        quote(w) == [ok |-> TRUE, subTokens |-> w.subTokens, i |-> w.i]
        \* the prefix m[1] ends before e, the content m[2] starts at c
        first(line, e, c) ==
            quote(QuoteContinuation(toks, i + 1, countQuoteLevel(Sub(line, 1, e)),
                      Append(subTokens,
                             QuoteLineToken(Sub(line, c, Len(line) + 1)))))
        prefix(line, pe) ==
            IF pe = {} THEN none
            ELSE first(line, Max(pe), QuoteContentStart(line, Max(pe)))
    IN  IF ~(~tokIsBlankLine(toks[i]) /\ hasText(toks[i])
             /\ canContainMarkup(toks[i]))
        THEN none
        ELSE prefix(toks[i].text, Ends(Cat(<<Bol, Plus(QuoteMark)>>), toks[i].text, 1))

\* "^ {0,3}((\\* *){3,}|(- *){3,}|(_ *){3,})$"
cHorizontalRules ==
    LET rule(c) == Rep(Cat(<<Chr({c}), Star(Chr({SP}))>>), 3, -1) IN
    Cat(<<Bol, Rep(Chr({SP}), 0, 3), Alt(<<rule("*"), rule("-"), rule("_")>>),
          Eol>>)

\* parseHorizontalRule: [ok, tok, i]
parseHorizontalRule(toks, i) ==
    IF /\ ~tokIsBlankLine(toks[i]) /\ hasText(toks[i]) /\ canContainMarkup(toks[i])
       /\ RegexMatch(cHorizontalRules, toks[i].text)
    THEN [ok |-> TRUE, tok |-> Tok("HtmlTag", <<"h", "r", " ", "/">>), i |-> i]
    ELSE [ok |-> FALSE, tok |-> toks[i], i |-> i]

\* Header(level, contents): the level is kept in the field info
Header(level, contents) ==
    [kind |-> "Header", text |-> <<>>, info |-> <<level>>, sub |-> contents]

\* regex_match(line, m1, cHashHeaders): [ok, level, title]
\* "^ {0,3}(#{1,6}) +(.*?)( +#* *)?$"; the lazy title is the shortest one
\* that the optional closing run can follow
matchHashHeader(line) ==
    LET n     == Len(line)
        close == Cat(<<Opt(Cat(<<Plus(Chr({SP})), Star(Chr({"#"})),
                                 Star(Chr({SP}))>>)), Eol>>)
        \* k spaces, h hashes and sp spaces open the line, the title starts
        \* at t and ends before one of tails
        match(k, h, sp, t, tails) ==
            IF k <= 3 /\ h >= 1 /\ h <= 6 /\ sp >= 1 /\ tails # {}
            THEN [ok |-> TRUE, level |-> h, title |-> Sub(line, t, Min(tails))]
            ELSE [ok |-> FALSE, level |-> 0, title |-> <<>>]
        spaces(k, h, sp) ==
            match(k, h, sp, k + h + sp + 1,
                  {e \in (k + h + sp + 1)..(n + 1) : (n + 1) \in Ends(close, line, e)})
        hashes(k, h) == spaces(k, h, Run(line, k + h + 1, {SP}))
        indented(k) == hashes(k, Run(line, k + 1, {"#"}))
    IN  indented(Run(line, 1, {SP}))

\* "^ {0,3}([-=])\\1* *$"
cUnderlinedHeaders ==
    LET line(c) == Cat(<<Plus(Chr({c})), Star(Chr({SP}))>>) IN
    Cat(<<Bol, Rep(Chr({SP}), 0, 3), Alt(<<line("-"), line("=")>>), Eol>>)

\* m2.str(1) of regex_match(title, m2, titleWithSpaces), "^ {0,3}(.*[^ ]) *$"
underlinedTitle(title) ==
    LET k    == Min({3, Run(title, 1, {SP})})
        last == {e \in (k + 1)..Len(title) : title[e] # SP}
    IN  IF last = {} THEN <<>> ELSE Sub(title, k + 1, Max(last) + 1)

\* parseHeader: [ok, tok, i]
parseHeader(toks, i) ==
    LET none == [ok |-> FALSE, tok |-> toks[i], i |-> i]
        ii   == i + 1
        underlined(under) ==
            [ok |-> TRUE,
             tok |-> Header(IF under[Run(under, 1, {SP}) + 1] = "=" THEN 1 ELSE 2,
                            <<RawText(underlinedTitle(toks[i].text))>>),
             i |-> ii]
        hashed(m1) ==
            IF m1.ok
            THEN [ok |-> TRUE, tok |-> Header(m1.level, <<RawText(m1.title)>>),
                  i |-> i]
            ELSE IF /\ ii <= Len(toks)
                    /\ ~tokIsBlankLine(toks[ii]) /\ hasText(toks[ii])
                    /\ canContainMarkup(toks[ii])
                    /\ RegexMatch(cUnderlinedHeaders, toks[ii].text)
            THEN underlined(toks[ii].text)
            ELSE none
    IN  IF ~(~tokIsBlankLine(toks[i]) /\ hasText(toks[i])
             /\ canContainMarkup(toks[i]))
        THEN none
        ELSE hashed(matchHashHeader(toks[i].text))

\* isCodeBlockLine(i, end): [ok, text, i]
RECURSIVE isCodeBlockLine(_, _)
isCodeBlockLine(toks, i) ==
    LET none == [ok |-> FALSE, text |-> <<>>, i |-> i]
        afterBlank(r) ==
            IF r.ok THEN [ok |-> TRUE, text |-> <<NL>> \o r.text, i |-> r.i]
            ELSE none
        code(line) ==
            IF Len(line) >= 4 /\ Run(line, 1, {SP}) >= 4
            THEN [ok |-> TRUE, text |-> Sub(line, 5, Len(line) + 1), i |-> i + 1]
            ELSE none
    IN  IF tokIsBlankLine(toks[i])
        THEN IF i + 1 <= Len(toks) THEN afterBlank(isCodeBlockLine(toks, i + 1))
             ELSE none
        ELSE IF hasText(toks[i]) /\ canContainMarkup(toks[i])
        THEN code(toks[i].text)
        ELSE none

\* the while loop of parseCodeBlock from cursor i: [out, i]
RECURSIVE CodeBlockLines(_, _, _)
CodeBlockLines(toks, i, out) ==
    LET line(c) == IF c.ok THEN CodeBlockLines(toks, c.i, out \o c.text \o <<NL>>)
                   ELSE [out |-> out, i |-> i]
    IN  IF i > Len(toks) THEN [out |-> out, i |-> i]
        ELSE line(isCodeBlockLine(toks, i))

\* parseCodeBlock: [ok, tok, i]
parseCodeBlock(toks, i) ==
    LET none == [ok |-> FALSE, tok |-> toks[i], i |-> i]
        block(w) == [ok |-> TRUE, tok |-> Tok("CodeBlock", w.out), i |-> w.i - 1]
        first(c) == IF ~c.ok THEN none
                    ELSE block(CodeBlockLines(toks, c.i, c.text \o <<NL>>))
    IN  IF tokIsBlankLine(toks[i]) THEN none
        ELSE first(isCodeBlockLine(toks, i))

\* "^( *)([*+-]) +([^*-].*)$": 1 the indent, 2 the marker, 3 the content
cUnorderedListExpression ==
    Cat(<<Bol, Grp(1, Star(Chr({SP}))), Grp(2, Chr({"*", "+", "-"})),
          Plus(Chr({SP})), Grp(3, Cat(<<NotChr({"*", "-"}), Star(Dot)>>)), Eol>>)

\* "^( *)([0-9]+)\\. +(.*)$": 1 the indent, 2 the number, 3 the content
cOrderedListExpression ==
    Cat(<<Bol, Grp(1, Star(Chr({SP}))), Grp(2, Plus(Chr(Digit))), Chr({"."}),
          Plus(Chr({SP})), Grp(3, Star(Dot)), Eol>>)

\* "^" indent spaces "\\" startChar " +([^*-].*)$", and
\* "^" indent spaces "[0-9]+\\. +(.*)$"
nextItemExpression(type, indent, startChar) ==
    IF type = "cUnordered"
    THEN Cat(<<Bol, Rep(Chr({SP}), indent, indent), Chr({startChar}),
               Plus(Chr({SP})), Grp(1, Cat(<<NotChr({"*", "-"}), Star(Dot)>>)),
               Eol>>)
    ELSE Cat(<<Bol, Rep(Chr({SP}), indent, indent), Plus(Chr(Digit)), Chr({"."}),
               Plus(Chr({SP})), Grp(1, Star(Dot)), Eol>>)

\* "^" indent spaces " +(([*+-])|([0-9]+\\.)) +.*$"
startSublistExpression(indent) ==
    Cat(<<Bol, Rep(Chr({SP}), indent, indent), Plus(Chr({SP})),
          Alt(<<Chr({"*", "+", "-"}), Cat(<<Plus(Chr(Digit)), Chr({"."})>>)>>),
          Plus(Chr({SP})), Star(Dot), Eol>>)

\* "^ *([^ ].*)$"
cContinuedItemExpression ==
    Cat(<<Bol, Star(Chr({SP})), Grp(1, Cat(<<NotChr({SP}), Star(Dot)>>)), Eol>>)

\* "^ {indent+4}([^ ].*)$"
continuedAfterBlankLineExpression(indent) ==
    Cat(<<Bol, Rep(Chr({SP}), indent + 4, indent + 4),
          Grp(1, Cat(<<NotChr({SP}), Star(Dot)>>)), Eol>>)

\* "^ {indent+8}(.*)$"
codeBlockAfterBlankLineExpression(indent) ==
    Cat(<<Bol, Rep(Chr({SP}), indent + 8, indent + 8), Grp(1, Star(Dot)), Eol>>)

\* ListItem(contents): mInhibitParagraphs is kept in the field info
ListItem(contents) ==
    [kind |-> "ListItem", text |-> <<>>, info |-> <<TRUE>>, sub |-> contents]

\* UnorderedList as it would be if the paragraph mode were not handed on to
\* the items
UnorderedListOfTightItems(contents, paragraphMode) ==
    Group("UnorderedList", contents)

\* UnorderedList(contents, paragraphMode): in paragraph mode
\* inhibitParagraphs(false) is called on every item
UnorderedList(contents, paragraphMode) ==
    Group("UnorderedList",
          IF paragraphMode
          THEN [k \in 1..Len(contents) |-> [contents[k] EXCEPT !.info = <<FALSE>>]]
          ELSE contents)

\* OrderedList(contents, paragraphMode)
OrderedList(contents, paragraphMode) ==
    [UnorderedList(contents, paragraphMode) EXCEPT !.kind = "OrderedList"]

\* the list the line starts: [type, indent, startChar, content]
listStart(line, sub) ==
    LET none == [type |-> "cNone", indent |-> 0, startChar |-> "", content |-> <<>>]
        start(type, m) ==
            IF sub \/ Len(Capture(line, m, 1)) < 4
            THEN [type |-> type, indent |-> Len(Capture(line, m, 1)),
                  startChar |-> Capture(line, m, 2)[1],
                  content |-> Capture(line, m, 3)]
            ELSE none
        ordered(m) == IF m.ok THEN start("cOrdered", m) ELSE none
        unordered(m) ==
            IF m.ok THEN start("cUnordered", m)
            ELSE ordered(regex_match(line, cOrderedListExpression, 3))
    IN  unordered(regex_match(line, cUnorderedListExpression, 3))

\* the loop that collects an indented code block behind a blank line of a
\* list item, from cursor ii: [codeBlock, ii, undefined].  After a blank
\* line the code reads *(*iii)->text() of the next token without a test:
\* also when the blank line is the last token and when the next token has
\* no text; undefined then holds the marker of that read
RECURSIVE ListCodeBlockFrom(_, _, _, _)
ListCodeBlockFrom(toks, ii, r, codeBlock) ==
    LET left == [codeBlock |-> codeBlock, ii |-> ii, undefined |-> <<>>]
        read(what) ==
            [codeBlock |-> codeBlock, ii |-> ii, undefined |-> <<Undefined(what)>>]
        line(m) ==
            IF m.ok
            THEN ListCodeBlockFrom(toks, ii + 1, r,
                     codeBlock \o Capture(toks[ii].text, m, 1) \o <<NL>>)
            ELSE left
        afterBlank(m) ==
            IF m.ok
            THEN ListCodeBlockFrom(toks, ii + 2, r,
                     codeBlock \o <<NL>> \o Capture(toks[ii + 1].text, m, 1)
                     \o <<NL>>)
            ELSE left
    IN  IF ii > Len(toks) THEN left
        ELSE IF tokIsBlankLine(toks[ii])
        THEN IF ii + 1 > Len(toks) THEN read("parseListBlock: *iii behind the last token")
             ELSE IF ~hasText(toks[ii + 1])
             THEN read("parseListBlock: *text() of a token without text")
             ELSE afterBlank(regex_match(toks[ii + 1].text, r, 1))
        ELSE IF hasText(toks[ii]) THEN line(regex_match(toks[ii].text, r, 1))
        ELSE left

\* the open item as it would be closed if it were not pushed
closeItemWithoutPush(subTokens, subItemTokens) == subTokens

\* if (!subItemTokens.empty()) subTokens.push_back(new ListItem(subItemTokens)):
\* subTokens after it
closeItem(subTokens, subItemTokens) ==
    IF subItemTokens # <<>> THEN Append(subTokens, ListItem(subItemTokens))
    ELSE subTokens

RECURSIVE parseListBlock(_, _, _)

\* the while loop of parseListBlock from cursor i; c holds type, indent,
\* startChar, subTokens, subItemTokens, itemCount and setParagraphMode:
\* [list, i] with the state and the cursor the loop is left with
RECURSIVE ListItemsFrom(_, _, _)
ListItemsFrom(toks, i, c) ==
    LET text(k) == toks[k].text
        match(k, r) == regex_match(text(k), r, 1)
        itemPushed == closeItem(c.subTokens, c.subItemTokens)
        \* the loop is left with the cursor at k: the open item is closed
        left(k) ==
            [list |-> [c EXCEPT !.subTokens = itemPushed, !.subItemTokens = <<>>],
             i |-> k]
        \* nextItem==cAnotherItem for the line at k
        anotherItem(k, m, afterBlank) ==
            ListItemsFrom(toks, k + 1,
                [c EXCEPT !.subTokens = itemPushed,
                          !.subItemTokens = <<RawText(Capture(text(k), m, 1))>>,
                          !.itemCount = @ + 1,
                          !.setParagraphMode = @ \/ afterBlank])
        \* the loop meets undefined behaviour with the cursor at k: the
        \* marker is the last token of the open item
        undefined(k, marker) ==
            [list |-> [c EXCEPT !.subTokens =
                                    Append(@, ListItem(c.subItemTokens \o marker)),
                                !.subItemTokens = <<>>,
                                !.itemCount = @ + 1],
             i |-> k]
        \* the line at k starts a sublist: assert(p), and *p is pushed
        sublist(p, afterBlank) ==
            IF ~p.ok THEN undefined(p.i, <<Undefined("parseListBlock: assert(p)")>>)
            ELSE ListItemsFrom(toks, p.i,
                     [c EXCEPT !.subItemTokens = Append(@, p.tok),
                               !.itemCount = @ + 1,
                               !.setParagraphMode = @ \/ afterBlank])
        continued(next, added) ==
            ListItemsFrom(toks, next, [c EXCEPT !.subItemTokens = @ \o added])
        codeBlock(w) ==
            IF w.undefined # <<>>
            THEN undefined(w.ii, <<BlankLine(<<>>), Tok("CodeBlock", w.codeBlock)>>
                                 \o w.undefined)
            ELSE
            ListItemsFrom(toks, w.ii,
                [c EXCEPT !.subItemTokens =
                              @ \o <<BlankLine(<<>>), Tok("CodeBlock", w.codeBlock)>>,
                          !.itemCount = @ + 1,
                          !.setParagraphMode = TRUE])
        \* the line at ii follows a blank line
        code(ii, m) ==
            IF m.ok
            THEN codeBlock(ListCodeBlockFrom(toks, ii + 1,
                               codeBlockAfterBlankLineExpression(c.indent),
                               Capture(text(ii), m, 1) \o <<NL>>))
            ELSE left(i)
        after(ii, m) ==
            IF m.ok
            THEN continued(ii + 1, <<BlankLine(<<>>), RawText(Capture(text(ii), m, 1))>>)
            ELSE code(ii, match(ii, codeBlockAfterBlankLineExpression(c.indent)))
        nextAfterBlank(ii, m) ==
            IF m.ok THEN anotherItem(ii, m, TRUE)
            ELSE after(ii, match(ii, continuedAfterBlankLineExpression(c.indent)))
        blank(ii) ==
            IF ii > Len(toks) THEN left(ii)
            ELSE IF ~hasText(toks[ii]) THEN left(i)
            ELSE IF match(ii, startSublistExpression(c.indent)).ok
            THEN sublist(parseListBlock(toks, ii, TRUE), TRUE)
            ELSE nextAfterBlank(ii, match(ii, nextItemExpression(c.type, c.indent,
                                                                 c.startChar)))
        \* the line at i is not blank
        other ==
            IF \/ regex_match(text(i), cUnorderedListExpression, 3).ok
               \/ regex_match(text(i), cOrderedListExpression, 3).ok
            THEN left(i)
            ELSE continued(i + 1,
                     <<RawText(Capture(text(i), match(i, cContinuedItemExpression), 1))>>)
        next(m) == IF m.ok THEN anotherItem(i, m, FALSE) ELSE other
    IN  IF i > Len(toks) THEN left(i)
        ELSE IF tokIsBlankLine(toks[i]) THEN blank(i + 1)
        ELSE IF ~hasText(toks[i]) THEN left(i)
        ELSE IF match(i, startSublistExpression(c.indent)).ok
        THEN sublist(parseListBlock(toks, i, TRUE), FALSE)
        ELSE next(match(i, nextItemExpression(c.type, c.indent, c.startChar)))

\* parseListBlock as it would be if the cursor stayed where the loop left
\* it when the list turns out to be a false alarm
parseListBlockNotRewinding(toks, i, sub) ==
    LET none == [ok |-> FALSE, tok |-> toks[i], i |-> i]
        list(s, w) ==
            IF w.list.itemCount > 1 \/ s.indent # 0
            THEN [ok |-> TRUE,
                  tok |-> IF s.type = "cUnordered"
                          THEN UnorderedList(w.list.subTokens, w.list.setParagraphMode)
                          ELSE OrderedList(w.list.subTokens, w.list.setParagraphMode),
                  i |-> w.i]
            ELSE [ok |-> FALSE, tok |-> toks[i], i |-> w.i]
        started(s) ==
            IF s.type = "cNone" THEN none
            ELSE list(s, ListItemsFrom(toks, i + 1,
                             [type |-> s.type, indent |-> s.indent,
                              startChar |-> s.startChar, subTokens |-> <<>>,
                              subItemTokens |-> <<RawText(s.content)>>,
                              itemCount |-> 1, setParagraphMode |-> FALSE]))
    IN  IF ~(~tokIsBlankLine(toks[i]) /\ hasText(toks[i]) /\ canContainMarkup(toks[i]))
        THEN none
        ELSE started(listStart(toks[i].text, sub))

\* parseListBlock(i, end, sub): [ok, tok, i]
parseListBlock(toks, i, sub) ==
    LET none == [ok |-> FALSE, tok |-> toks[i], i |-> i]
        list(s, w) ==
            IF w.list.itemCount > 1 \/ s.indent # 0
            THEN [ok |-> TRUE,
                  tok |-> IF s.type = "cUnordered"
                          THEN UnorderedList(w.list.subTokens, w.list.setParagraphMode)
                          ELSE OrderedList(w.list.subTokens, w.list.setParagraphMode),
                  i |-> w.i]
            ELSE none
        started(s) ==
            IF s.type = "cNone" THEN none
            ELSE list(s, ListItemsFrom(toks, i + 1,
                             [type |-> s.type, indent |-> s.indent,
                              startChar |-> s.startChar, subTokens |-> <<>>,
                              subItemTokens |-> <<RawText(s.content)>>,
                              itemCount |-> 1, setParagraphMode |-> FALSE]))
    IN  IF ~(~tokIsBlankLine(toks[i]) /\ hasText(toks[i]) /\ canContainMarkup(toks[i]))
        THEN none
        ELSE started(listStart(toks[i].text, sub))

\* the first recognizer of the chain hr, list, header, code block that
\* accepts the token at cursor i: [ok, tok, i]
parseSubitem(toks, i, isPrevParagraph) ==
    LET codeBlock(r) ==
            IF r.ok \/ isPrevParagraph THEN r ELSE parseCodeBlock(toks, r.i)
        header(r) == IF r.ok THEN r ELSE codeBlock(parseHeader(toks, r.i))
        list(r) == IF r.ok THEN r ELSE header(parseListBlock(toks, r.i, FALSE))
    IN  list(parseHorizontalRule(toks, i))

RECURSIVE _processBlocksItems(_)
RECURSIVE BlocksItemsFrom(_, _, _)

\* the switch of _processBlocksItems on status: the state of the loop after
\* it; bq is what parseBlockQuote returned and subitem what the other
\* recognizers returned
blockItem(toks, tok, st, bq, subitem, status) ==
    LET \* cases 2 and 5 (after a block quote): the token at the cursor joins
        \* the quote unless it is blank
        joins == status = 2 \/ (status = 5 /\ st.isPrevBlockQuote)
        isPrevBlankLine == joins /\ tokIsBlankLine(toks[bq.i])
        accu ==
            IF joins /\ ~isPrevBlankLine THEN Append(bq.subTokens, toks[bq.i])
            ELSE bq.subTokens
        \* new BlockQuote(accu) is pushed: always in cases 1 and 3, after a
        \* block quote in cases 4 and 6, and in cases 2 and 5 when a blank
        \* line or the end of the list closes the quote
        quoted ==
            CASE status \in {1, 3} -> TRUE
              [] status \in {4, 6} -> st.isPrevBlockQuote
              [] joins -> isPrevBlankLine \/ bq.i + 1 > Len(toks)
              [] OTHER -> FALSE
        \* what is pushed after _processBlocksItems ran on it
        items ==
            (IF quoted THEN <<Group("BlockQuote", accu)>> ELSE <<>>)
            \o (CASE status \in {1, 4} -> <<subitem.tok>>
                  [] status = 6 -> <<tok>>
                  [] OTHER -> <<>>)
        \* case 5 after no block quote: the token is pushed as it is
        raw == IF status = 5 /\ ~joins THEN <<tok>> ELSE <<>>
    IN  IF status = 0 THEN st
        ELSE [processed |->
                  st.processed
                  \o [k \in 1..Len(items) |-> _processBlocksItems(items[k])]
                  \o raw,
              accu |-> IF quoted /\ status # 3 THEN <<>> ELSE accu,
              isPrevParagraph |->
                  CASE status = 3 -> st.isPrevParagraph
                    [] status = 5 /\ ~joins -> ~tokIsBlankLine(tok)
                    [] OTHER -> FALSE,
              isPrevBlockQuote |->
                  CASE status = 3 -> st.isPrevBlockQuote
                    [] joins -> ~isPrevBlankLine
                    [] OTHER -> FALSE]

\* the status the loop body works out for the token at its cursor
blockStatus(toks, tok, bq, subitem) ==
    IF hasText(tok)
    THEN IF bq.ok
         THEN IF subitem.ok THEN 1
              ELSE IF bq.i <= Len(toks) THEN 2 ELSE 3
         ELSE IF subitem.ok THEN 4 ELSE 5
    ELSE IF isContainer(tok) THEN 6 ELSE 0

\* the for loop of _processBlocksItems from cursor ii; st holds processed,
\* accu, isPrevParagraph and isPrevBlockQuote
BlocksItemsFrom(toks, ii, st) ==
    LET \* the loop goes on behind the cursor next, if that is not the end
        continue(next, st2) ==
            IF next > Len(toks) THEN st2.processed
            ELSE BlocksItemsFrom(toks, next + 1, st2)
        switch(bq, subitem, status) ==
            continue(IF status \in {1, 4} THEN subitem.i ELSE bq.i,
                     blockItem(toks, toks[ii], st, bq, subitem, status))
        recognized(bq, subitem) ==
            switch(bq, subitem, blockStatus(toks, toks[ii], bq, subitem))
        quoted(bq) ==
            recognized(bq,
                IF hasText(toks[ii]) /\ bq.i <= Len(toks)
                THEN parseSubitem(toks, bq.i, st.isPrevParagraph)
                ELSE [ok |-> FALSE, tok |-> toks[ii], i |-> bq.i])
    IN  IF ii > Len(toks) THEN st.processed
        ELSE quoted(IF hasText(toks[ii]) THEN parseBlockQuote(st.accu, toks, ii)
                    ELSE [ok |-> FALSE, subTokens |-> st.accu, i |-> ii])

\* _processBlocksItems(inTokenContainer): the container with its block items
_processBlocksItems(inTokenContainer) ==
    IF ~isContainer(inTokenContainer) THEN inTokenContainer
    ELSE [inTokenContainer EXCEPT !.sub =
              BlocksItemsFrom(inTokenContainer.sub, 1,
                  [processed |-> <<>>, accu |-> <<>>,
                   isPrevParagraph |-> FALSE, isPrevBlockQuote |-> FALSE])]

----------------------------------------------------------------------------
(* Paragraph lines (fifth pass)                                            *)

\* Token::inhibitParagraphs and its overrides
inhibitParagraphs(tok) ==
    \/ tok.kind \in {"Header", "InlineHtmlBlock"}
    \/ tok.kind = "ListItem" /\ tok.info = <<TRUE>>

\* flushParagraph: finalTokens after the flush
flushParagraph(paragraphTokens, finalTokens, noParagraphs) ==
    IF paragraphTokens = <<>> THEN finalTokens
    ELSE IF noParagraphs
    THEN IF Len(paragraphTokens) > 1
         THEN Append(finalTokens, Group("Container", paragraphTokens))
         ELSE Append(finalTokens, paragraphTokens[1])
    ELSE Append(finalTokens, Group("Paragraph", paragraphTokens))

\* regex_match(text, m, "^ *(.*?)(  +)?$"): [text, br] with m.str(1) and
\* m[2].matched
matchParagraphLine(text) ==
    LET n == Len(text)
        ends(k, e) == [text |-> Sub(text, k + 1, e), br |-> e < n + 1]
        indented(k) ==
            ends(k, Min({e \in (k + 1)..(n + 1) :
                            \/ e = n + 1
                            \/ n - e + 1 >= 2 /\ Run(text, e, {SP}) = n - e + 1}))
    IN  indented(Run(text, 1, {SP}))

RECURSIVE _processParagraphLines(_)
RECURSIVE ParagraphLinesFrom(_, _, _, _, _)

\* the second for loop of _processParagraphLines from cursor ii
ParagraphLinesFrom(toks, ii, noPara, paragraphTokens, processed) ==
    LET line(m) ==
            ParagraphLinesFrom(toks, ii + 1, noPara,
                Append(paragraphTokens, RawText(m.text))
                    \o (IF m.br /\ ii + 1 <= Len(toks)
                        THEN <<Tok("HtmlTag", <<"b", "r", " ", "/">>)>>
                        ELSE <<>>),
                processed)
    IN  IF ii > Len(toks) THEN flushParagraph(paragraphTokens, processed, noPara)
        ELSE IF /\ hasText(toks[ii]) /\ canContainMarkup(toks[ii])
                /\ ~inhibitParagraphs(toks[ii])
        THEN line(matchParagraphLine(toks[ii].text))
        ELSE ParagraphLinesFrom(toks, ii + 1, noPara, <<>>,
                 Append(flushParagraph(paragraphTokens, processed, noPara),
                        toks[ii]))

\* _processParagraphLines(inTokenContainer): the container with its paragraphs
_processParagraphLines(inTokenContainer) ==
    LET inner == [k \in 1..Len(inTokenContainer.sub) |->
                     IF isContainer(inTokenContainer.sub[k])
                     THEN _processParagraphLines(inTokenContainer.sub[k])
                     ELSE inTokenContainer.sub[k]]
    IN  [inTokenContainer EXCEPT !.sub =
             ParagraphLinesFrom(inner, 1, inhibitParagraphs(inTokenContainer),
                                <<>>, <<>>)]

----------------------------------------------------------------------------
(* Span resolution of one RawText: the sub-passes before the emphasis      *)
(* resolution.  A resolved item is taken out of the text and kept in the   *)
(* ReplacementTable; the text holds "\x01@" n "@" name "\x01" in its       *)
(* place.  The character \x01 is written SOH and the name of the marker    *)
(* is one element of the text.                                             *)

SOH == "SOH"

\* boost::lexical_cast<string>(n) and back
RECURSIVE Decimal(_)
Decimal(n) ==
    LET digit(d) == <<"0","1","2","3","4","5","6","7","8","9">>[d + 1] IN
    IF n < 10 THEN <<digit(n)>> ELSE Decimal(n \div 10) \o <<digit(n % 10)>>

RECURSIVE Number(_)
Number(str) ==
    LET value(c) == CHOOSE d \in 0..9 : Decimal(d) = <<c>> IN
    IF str = <<>> THEN 0
    ELSE 10 * Number(SubSeq(str, 1, Len(str) - 1)) + value(str[Len(str)])

\* "\x01@" + lexical_cast<string>(n) + "@" + name + "\x01"
Placeholder(n, name) == <<SOH, "@">> \o Decimal(n) \o <<"@", name, SOH>>

cEscapedCharacters ==
    <<"\\", BQ, "*", "_", "{", "}", "[", "]", "(", ")", "#", "+", "-", ".",
      "!", ">">>

\* isEscapedCharacter(c): the index of c, from 0, or -1 for none
isEscapedCharacter(c) ==
    LET at == {k \in 1..Len(cEscapedCharacters) : cEscapedCharacters[k] = c}
    IN  IF at = {} THEN -1 ELSE Min(at) - 1

escapedCharacter(index) == cEscapedCharacters[index + 1]

\* "\x01@(#?[0-9]*)@.+?\x01"
cReplaced ==
    Cat(<<Chr({SOH}), Chr({"@"}),
          Grp(1, Cat(<<Opt(Chr({"#"})), Star(Chr(Digit))>>)),
          Chr({"@"}), Lazy(Dot, 1, -1), Chr({SOH})>>)

\* Token::writeAsOriginal of a replaced item, as _restoreProcessedItems uses
\* it: a CodeSpan writes its text between grave accents, a TextHolder its text
writeAsOriginal(tok) ==
    IF tok.kind = "CodeSpan" THEN <<BQ>> \o tok.text \o <<BQ>> ELSE tok.text

\* RawText::_restoreProcessedItems: src with the replaced items written
\* back as they were
RECURSIVE _restoreProcessedItems(_, _)
_restoreProcessedItems(src, replacements) ==
    LET back(ref) ==
            IF ref # <<>> /\ ref[1] = "#"
            THEN <<"\\", escapedCharacter(Number(Tail(ref)))>>
            ELSE IF ref # <<>> THEN writeAsOriginal(replacements[Number(ref) + 1])
            ELSE <<>>
        found(m) ==
            IF m.ok
            THEN Sub(src, 1, m.a) \o back(Capture(src, m, 1))
                 \o _restoreProcessedItems(Sub(src, m.e, Len(src) + 1), replacements)
            ELSE src
    IN  found(regex_search(src, cReplaced, 1))

\* <((/?)([a-zA-Z0-9]+)(?:( +[a-zA-Z0-9]+?(?: ?= ?("|').*?\5))+? */? *))>
cHtmlToken ==
    Cat(<<Chr({"<"}),
          Grp(1, Cat(<<Grp(2, Opt(Chr({"/"}))), Grp(3, Plus(Chr(AlNum))),
                       Lazy(Grp(4, Cat(<<Plus(Chr({SP})), Lazy(Chr(AlNum), 1, -1),
                                         Opt(Chr({SP})), Chr({"="}), Opt(Chr({SP})),
                                         Grp(5, Chr({DQ, SQ})), Lazy(Dot, 0, -1),
                                         Ref(5)>>)), 1, -1),
                       Star(Chr({SP})), Opt(Chr({"/"})), Star(Chr({SP}))>>)),
          Chr({">"})>>)

\* = ?("|').*?\1
cAttributeStrings ==
    Cat(<<Chr({"="}), Opt(Chr({SP})), Grp(1, Chr({DQ, SQ})), Lazy(Dot, 0, -1),
          Ref(1)>>)

\* the inner loop of _processHtmlTagAttributes over one tag: [str, replacements]
RECURSIVE tagAttributes(_, _, _)
tagAttributes(fulltag, tgttag, replacements) ==
    LET found(m) ==
            IF m.ok
            THEN tagAttributes(Sub(fulltag, m.e, Len(fulltag) + 1),
                     tgttag \o Sub(fulltag, 1, m.a)
                            \o Placeholder(Len(replacements), "htmlTagAttr"),
                     Append(replacements, Tok("TextHolder", Sub(fulltag, m.a, m.e))))
            ELSE [str |-> tgttag \o fulltag, replacements |-> replacements]
    IN  found(regex_search(fulltag, cAttributeStrings, 1))

\* RawText::_processHtmlTagAttributes: [str, replacements]
RECURSIVE HtmlTagAttributesFrom(_, _, _)
HtmlTagAttributesFrom(src, tgt, replacements) ==
    LET rest(m) == Sub(src, m.e, Len(src) + 1)
        quoted(m, t) ==
            HtmlTagAttributesFrom(rest(m), tgt \o Sub(src, 1, m.a) \o t.str,
                                  t.replacements)
        found(m) ==
            IF ~m.ok THEN [str |-> tgt \o src, replacements |-> replacements]
            ELSE IF isValidTag(Capture(src, m, 3), FALSE) # 0
            THEN quoted(m, tagAttributes(Sub(src, m.a, m.e), <<>>, replacements))
            ELSE HtmlTagAttributesFrom(rest(m), tgt \o Sub(src, 1, m.e), replacements)
    IN  found(regex_search(src, cHtmlToken, 5))

_processHtmlTagAttributes(src, replacements) ==
    HtmlTagAttributesFrom(src, <<>>, replacements)

\* (?<!`)(`+)(?!`) *(.*?[^ ]) *(?<!`)\1(?!`)
cCodeSpan ==
    Cat(<<Behind({BQ}, FALSE), Grp(1, Plus(Chr({BQ}))), Ahead(Chr({BQ}), FALSE),
          Star(Chr({SP})), Grp(2, Cat(<<Lazy(Dot, 0, -1), NotChr({SP})>>)),
          Star(Chr({SP})), Behind({BQ}, FALSE), Ref(1), Ahead(Chr({BQ}), FALSE)>>)

\* RawText::_processCodeSpans: [str, replacements]
RECURSIVE CodeSpansFrom(_, _, _)
CodeSpansFrom(src, tgt, replacements) ==
    LET found(m) ==
            IF m.ok
            THEN CodeSpansFrom(Sub(src, m.e, Len(src) + 1),
                     tgt \o Sub(src, 1, m.a)
                         \o Placeholder(Len(replacements), "codeSpan"),
                     Append(replacements,
                            Tok("CodeSpan",
                                _restoreProcessedItems(Capture(src, m, 2),
                                                       replacements))))
            ELSE [str |-> tgt \o src, replacements |-> replacements]
    IN  found(regex_search(src, cCodeSpan, 2))

_processCodeSpans(src, replacements) == CodeSpansFrom(src, <<>>, replacements)

\* _processEscapedCharacters as it would be if no character were escapable

\* RawText::_processEscapedCharacters
RECURSIVE _processEscapedCharacters(_)
_processEscapedCharacters(src) ==
    LET at == {k \in 1..Len(src) : src[k] = "\\"}
        i == Min(at)
        e == isEscapedCharacter(src[i + 1])
    IN  IF at = {} THEN src
        ELSE IF i = Len(src) THEN src
        ELSE Sub(src, 1, i)
             \o (IF e >= 0 THEN <<SOH, "@", "#">> \o Decimal(e) \o <<"@", "escaped", SOH>>
                 ELSE <<"\\", src[i + 1]>>)
             \o _processEscapedCharacters(Sub(src, i + 2, Len(src) + 1))

\* ^(&amp;)|(&#[0-9]{1,3};)|(&#[xX][0-9a-fA-F]{1,2};)
cIgnore ==
    Alt(<<Cat(<<Bol>> \o Str(<<"&","a","m","p",";">>)),
          Cat(Str(<<"&","#">>) \o <<Rep(Chr(Digit), 1, 3), Chr({";"})>>),
          Cat(Str(<<"&","#">>)
              \o <<Chr({"x","X"}),
                   Rep(Chr(Digit \cup {"a","b","c","d","e","f",
                                       "A","B","C","D","E","F"}), 1, 2),
                   Chr({";"})>>)>>)

\* encodeString(src, encodingFlags); the flags are a set of names
RECURSIVE encodeString(_, _)
encodeString(src, encodingFlags) ==
    LET c == Head(src)
        one == IF c = "&" /\ "cAmps" \in encodingFlags
               THEN IF regex_search(src, cIgnore, 0).ok THEN <<c>> ELSE <<"&amp;">>
               ELSE IF c = "&" /\ "cDoubleAmps" \in encodingFlags THEN <<"&amp;">>
               ELSE IF c = "<" /\ "cAngles" \in encodingFlags THEN <<"&lt;">>
               ELSE IF c = ">" /\ "cAngles" \in encodingFlags THEN <<"&gt;">>
               ELSE IF c = DQ /\ "cQuotes" \in encodingFlags THEN <<"&quot;">>
               ELSE <<c>>
    IN  IF src = <<>> THEN <<>> ELSE one \o encodeString(Tail(src), encodingFlags)

\* HtmlAnchorTag(url, title): a TextHolder that holds the opening tag
HtmlAnchorTag(url, title) ==
    Tok("HtmlAnchorTag",
        <<"<a href=\"">> \o encodeString(url, {"cQuotes", "cAmps"}) \o <<"\"">>
        \o (IF title = <<>> THEN <<>>
            ELSE <<" title=\"">> \o encodeString(title, {"cQuotes", "cAmps"})
                 \o <<"\"">>)
        \o <<">">>)

HtmlTag(contents) == Tok("HtmlTag", contents)

\* Image(altText, url, title)
Image(altText, url, title) ==
    [kind |-> "Image", text |-> altText, info |-> Target(url, title), sub |-> <<>>]

\* new RawText(text, false): text that holds no markup
PlainText(text) == Tok("PlainText", text)

looksLikeUrl(str) ==
    \E scheme \in {<<"h","t","t","p",":","/","/">>, <<"h","t","t","p","s",":","/","/">>,
                   <<"f","t","p",":","/","/">>, <<"f","t","p","s",":","/","/">>,
                   <<"f","i","l","e",":","/","/">>, <<"w","w","w",".">>,
                   <<"f","t","p",".">>} :
        Len(str) >= Len(scheme) /\ SubSeq(str, 1, Len(scheme)) = scheme

looksLikeEmailAddress(str) ==
    LET name == AlNum \cup {".", "_", "%", "-", "+"}
        site == AlNum \cup {".", "_", "%", "-"}
        i == Run(str, 1, name) + 1
        alpha == Lower \cup Upper
        tail == Max({d \in 0..Len(str) :
                        \A k \in (Len(str) - d + 1)..Len(str) : str[k] \in alpha})
    IN  /\ i <= Len(str) /\ str[i] = "@" /\ i # 1
        /\ i + Run(str, i + 1, site) = Len(str)
        /\ tail < Len(str) /\ str[Len(str) - tail] = "."
        /\ tail >= 2 /\ tail <= 4

\* emailEncode(src): the characters as numeric references, by turns decimal
\* and hexadecimal; the number of a character c is written code(c)
emailEncode(src) ==
    Concat([k \in 1..Len(src) |->
               IF k % 2 = 1 THEN <<"&#", "code(" \o src[k] \o ")", ";">>
               ELSE <<"&#x", "code(" \o src[k] \o ")", ";">>])

cleanTextLinkRef(ref) ==
    SelectSeq([k \in 1..Len(ref) |->
                  IF ref[k] = SP /\ k > 1 /\ ref[k - 1] = SP THEN "" ELSE ref[k]],
              LAMBDA c : c # "")

\* the three alternatives of cExpression: inline link or image, reference
\* link or image, potental HTML tag or auto-link
cExpression ==
    Alt(<<Cat(<<Grp(1, Opt(Chr({"!"}))), Chr({"["}), Grp(2, Star(Dot)), Chr({"]"}),
                Chr({"("}),
                Grp(3, Cat(<<Star(NotChr({"("})),
                             Lazy(Cat(<<Chr({"("}), Lazy(Dot, 0, -1), Chr({")"}),
                                        Lazy(Dot, 0, -1)>>), 0, -1)>>)),
                Chr({")"})>>),
          Cat(<<Grp(4, Opt(Chr({"!"}))), Chr({"["}),
                Grp(5, Alt(<<Cat(<<Lazy(NotChr({"]"}), 0, -1), Chr({"["}),
                                   Lazy(Dot, 0, -1), Chr({"]"}), Lazy(Dot, 0, -1)>>),
                             Lazy(Dot, 1, -1)>>)),
                Chr({"]"}),
                Opt(Cat(<<Star(Chr({SP})), Chr({"["}), Grp(6, Lazy(Dot, 0, -1)),
                          Chr({"]"})>>))>>),
          Cat(<<Chr({"<"}),
                Grp(7, Cat(<<Opt(Chr({"/"})), Grp(8, Plus(Chr(AlNum))),
                             Lazy(Dot, 0, -1)>>)),
                Chr({">"})>>)>>)

\* ^<?([^ >]*)>?(?: *(?:('|")(.*)\2)|(?:\((.*)\)))? *$
cInlineReference ==
    Cat(<<Bol, Opt(Chr({"<"})), Grp(1, Star(NotChr({SP, ">"}))), Opt(Chr({">"})),
          Opt(Alt(<<Cat(<<Star(Chr({SP})), Grp(2, Chr({SQ, DQ})), Grp(3, Star(Dot)),
                          Ref(2)>>),
                    Cat(<<Chr({"("}), Grp(4, Star(Dot)), Chr({")"})>>)>>)),
          Star(Chr({SP})), Eol>>)

\* new BoldOrItalicMarker(open, c, size); uid stands for the address of the
\* token, 0 for the null pointer
BoldOrItalicMarker(uid, open, c, size) ==
    [uid |-> uid, mOpenMarker |-> open, mTokenCharacter |-> c, mSize |-> size,
     mMatch |-> 0, mId |-> -1, mDisabled |-> FALSE]

isUnmatchedOpenMarker(m) == m.mOpenMarker /\ m.mMatch = 0 /\ ~m.mDisabled
isUnmatchedCloseMarker(m) == ~m.mOpenMarker /\ m.mMatch = 0 /\ ~m.mDisabled
isMatchedOpenMarker(m) == m.mOpenMarker /\ m.mMatch # 0
isMatchedCloseMarker(m) == ~m.mOpenMarker /\ m.mMatch # 0

\* BoldOrItalicMarker::matched(match, id)
matched(m, match, id) == [m EXCEPT !.mMatch = match, !.mId = id]
\* BoldOrItalicMarker::matched(0): the id takes its default
unmatched(m) == matched(m, 0, -1)
\* BoldOrItalicMarker::disable()
disable(m) == [m EXCEPT !.mDisabled = TRUE]

\* the markers a text can start with, and the lists of them that hold at
\* most n characters
MarkerKinds ==
    {[mOpenMarker |-> o, mTokenCharacter |-> c, mSize |-> z] :
        o \in BOOLEAN, c \in {"*", "_"}, z \in 1..3}

RECURSIVE KindLists(_)
KindLists(n) ==
    {<<>>} \cup UNION {{<<k>> \o t : t \in KindLists(n - k.mSize)} :
                          k \in {x \in MarkerKinds : x.mSize <= n}}

markersOf(kinds) ==
    [k \in 1..Len(kinds) |->
        BoldOrItalicMarker(k, kinds[k].mOpenMarker, kinds[k].mTokenCharacter,
                           kinds[k].mSize)]

\* BoldOrItalicMarker::writeAsHtml as it would be with the closing tags of
\* a run of 3 in the order of the opening tags
writeClosingInOpeningOrder(m) ==
    IF m.mDisabled THEN <<>>
    ELSE IF m.mMatch # 0
    THEN IF m.mOpenMarker
         THEN IF m.mSize = 1 THEN <<"<em>">>
              ELSE IF m.mSize = 2 THEN <<"<strong>">> ELSE <<"<strong><em>">>
         ELSE IF m.mSize = 1 THEN <<"</em>">>
              ELSE IF m.mSize = 2 THEN <<"</strong>">> ELSE <<"</strong></em>">>
    ELSE [k \in 1..m.mSize |-> m.mTokenCharacter]

\* BoldOrItalicMarker::writeAsHtml: what the marker puts on the stream; a
\* string literal of the source is one element, a character of the text one
BoldOrItalicMarker_writeAsHtml(m) ==
    IF ~m.mDisabled
    THEN IF m.mMatch # 0
         THEN IF m.mOpenMarker
              THEN IF m.mSize = 1 THEN <<"<em>">>
                   ELSE IF m.mSize = 2 THEN <<"<strong>">> ELSE <<"<strong><em>">>
              ELSE IF m.mSize = 1 THEN <<"</em>">>
                   ELSE IF m.mSize = 2 THEN <<"</strong>">> ELSE <<"</em></strong>">>
         ELSE [k \in 1..m.mSize |-> m.mTokenCharacter]
    ELSE <<>>

\* what _processLinksImagesAndTags makes of one match m of cExpression in
\* src: [resolved, contents, items]; items are the tokens for the
\* ReplacementTable, contents the link text that stays in the string
linkOrTag(src, m, replacements, idTable) ==
    LET cap(n) == Capture(src, m, n)
        has(n) == Matched(m, n)
        isRefImage == has(4) /\ cap(4) # <<>>
        isImage == isRefImage \/ (has(1) /\ cap(1) # <<>>)
        isRefLink == ~isImage /\ has(5)
        isLink == isRefLink \/ (~isImage /\ has(2))
        isReference == isRefImage \/ isRefLink
        unresolved == [resolved |-> FALSE, contents |-> <<>>, items |-> <<>>]
        made(contentsOrAlttext, url, title) ==
            IF isImage
            THEN [resolved |-> TRUE, contents |-> <<>>,
                  items |-> <<Image(contentsOrAlttext, url, title)>>]
            ELSE [resolved |-> TRUE, contents |-> contentsOrAlttext,
                  items |-> <<HtmlAnchorTag(url, title), HtmlTag(<<"/", "a">>)>>]
        byId(target) ==
            IF target.found THEN made(cap(5), target.target.url, target.target.title)
            ELSE unresolved
        linkId == IF has(6) /\ cap(6) # <<>> THEN cap(6) ELSE cleanTextLinkRef(cap(5))
        inline(mm) ==
            IF mm.ok
            THEN made(cap(2), Capture(cap(3), mm, 1),
                      IF Matched(mm, 3) THEN Capture(cap(3), mm, 3)
                      ELSE IF Matched(mm, 4) THEN Capture(cap(3), mm, 4) ELSE <<>>)
            ELSE unresolved
        autoLink(href, shown) ==
            Group("Container", <<HtmlAnchorTag(href, <<>>), PlainText(shown),
                                 HtmlTag(<<"/", "a">>)>>)
        mailto == <<"m","a","i","l","t","o",":">>
        tag(contents) ==
            [resolved |-> TRUE, contents |-> <<>>,
             items |->
               <<IF looksLikeUrl(contents) THEN autoLink(contents, contents)
                 ELSE IF looksLikeEmailAddress(contents)
                 THEN autoLink(emailEncode(mailto \o contents), emailEncode(contents))
                 ELSE IF isValidTag(cap(8), FALSE) # 0
                 THEN HtmlTag(_restoreProcessedItems(contents, replacements))
                 ELSE RawText(Sub(src, m.a, m.e))>>]
    IN  IF isImage \/ isLink
        THEN IF isReference THEN byId(LinkIds_find(idTable, linkId))
             ELSE inline(regex_match(cap(3), cInlineReference, 4))
        ELSE tag(cap(7))

\* the loop of _processLinksImagesAndTags as it would be if an unresolved
\* candidate were given up whole, with the scan going on behind it
RECURSIVE LinksSkippingCandidate(_, _, _, _)
LinksSkippingCandidate(src, tgt, replacements, idTable) ==
    LET here(m) == tgt \o Sub(src, 1, m.a) \o Placeholder(Len(replacements), "links&Images1")
        made(m, x) ==
            IF ~x.resolved
            THEN LinksSkippingCandidate(Sub(src, m.e, Len(src) + 1), here(m),
                           Append(replacements, RawText(Sub(src, m.a, m.e))), idTable)
            ELSE LinksSkippingCandidate(Sub(src, m.e, Len(src) + 1),
                     here(m) \o x.contents
                     \o (IF Len(x.items) = 2
                         THEN Placeholder(Len(replacements) + 1, "links&Images2")
                         ELSE <<>>),
                     replacements \o x.items, idTable)
        found(m) ==
            IF m.ok THEN made(m, linkOrTag(src, m, replacements, idTable))
            ELSE [str |-> tgt \o src, replacements |-> replacements]
    IN  found(regex_search(src, cExpression, 8))

\* the loop of RawText::_processLinksImagesAndTags over the text from prev
\* on: [str, replacements]
RECURSIVE LinksImagesAndTagsFrom(_, _, _, _)
LinksImagesAndTagsFrom(src, tgt, replacements, idTable) ==
    LET here(m) == tgt \o Sub(src, 1, m.a) \o Placeholder(Len(replacements), "links&Images1")
        made(m, x) ==
            IF ~x.resolved
            THEN LinksImagesAndTagsFrom(Sub(src, m.a + 1, Len(src) + 1), here(m),
                           Append(replacements, RawText(Sub(src, m.a, m.a + 1))), idTable)
            ELSE LinksImagesAndTagsFrom(Sub(src, m.e, Len(src) + 1),
                     here(m) \o x.contents
                     \o (IF Len(x.items) = 2
                         THEN Placeholder(Len(replacements) + 1, "links&Images2")
                         ELSE <<>>),
                     replacements \o x.items, idTable)
        found(m) ==
            IF m.ok THEN made(m, linkOrTag(src, m, replacements, idTable))
            ELSE [str |-> tgt \o src, replacements |-> replacements]
    IN  found(regex_search(src, cExpression, 8))

_processLinksImagesAndTags(src, replacements, idTable) ==
    LinksImagesAndTagsFrom(src, <<>>, replacements, idTable)

\* [[:punct:]] in the C locale
Punct ==
    {"!", DQ, "#", "$", "%", "&", SQ, "(", ")", "*", "+", ",", "-", ".", "/",
     ":", ";", "<", "=", ">", "?", "@", "[", "\\", "]", "^", "_", BQ, "{",
     "|", "}", "~"}

\* the four alternatives of cEmphasisExpression: 1 opening stars, 2 opening
\* underscores, 3 closing stars, 4 closing underscores
cEmphasisExpression ==
    LET stars == Rep(Chr({"*"}), 1, 3)
        unders == Rep(Chr({"_"}), 1, 3)
        sp == Chr({SP})
        pu == Chr(Punct)
    IN  Alt(<<
          Grp(1, Alt(<<Cat(<<Behind({SP} \cup Punct, TRUE), stars,
                             Ahead(Alt(<<sp, Eol>>), FALSE)>>),
                       Cat(<<stars, Ahead(Alt(<<sp, Eol, pu>>), FALSE)>>)>>)),
          Grp(2, Alt(<<Cat(<<unders, Ahead(Alt(<<sp, Eol, pu>>), FALSE)>>),
                       Cat(<<Behind(Punct, FALSE), Behind({SP}, TRUE), unders,
                             Ahead(Alt(<<sp, Eol>>), FALSE), Ahead(pu, FALSE)>>)>>)),
          Grp(3, Alt(<<Cat(<<Behind({SP}, FALSE), stars,
                             Ahead(Alt(<<Eol, sp, pu>>), TRUE)>>),
                       Cat(<<Behind({SP} \cup Punct, FALSE), stars>>)>>)),
          Grp(4, Alt(<<Cat(<<Behind({SP} \cup Punct, FALSE), unders>>),
                       Cat(<<Behind({SP}, FALSE), Behind(Punct, TRUE), unders,
                             Ahead(Alt(<<sp, Eol>>), TRUE), Ahead(pu, FALSE)>>)>>))
        >>)

isMarker(tok) == "uid" \in DOMAIN tok

\* the first loop of _processBoldAndItalicSpans: src from the position prev
\* on is cut into RawText tokens and markers; n markers were made before
RECURSIVE EmphasisTokensFrom(_, _, _, _)
EmphasisTokensFrom(src, prev, tgt, n) ==
    LET end == Len(src) + 1
        rest == Sub(src, prev, end)
        found(m) ==
            IF ~m.ok
            THEN IF prev # end THEN Append(tgt, RawText(rest)) ELSE tgt
            ELSE LET first == prev + m.a - 1
                     second == prev + m.e - 1
                     token == Sub(src, first, second)
                     before == IF prev # first
                               THEN Append(tgt, RawText(Sub(src, prev, first)))
                               ELSE tgt
                     inWord == /\ first # 1
                               /\ second # end
                               /\ src[first - 1] \in AlNum
                               /\ src[second] \in AlNum
                     asText == ~Matched(m, 1) /\ (Matched(m, 2) \/ ~Matched(m, 3))
                               /\ inWord
                     open == Matched(m, 1) \/ Matched(m, 2)
                 IN  IF asText
                     THEN EmphasisTokensFrom(src, second,
                                             Append(before, RawText(token)), n)
                     ELSE EmphasisTokensFrom(src, second,
                              Append(before,
                                     BoldOrItalicMarker(n + 1, open, token[1],
                                                        Len(token))),
                              n + 1)
    IN  found(regex_search(rest, cEmphasisExpression, 4))

\* new EscapedCharacter(c)
EscapedCharacter(c) == Tok("EscapedCharacter", <<c>>)

\* RawText::_encodeProcessedItems: the text between the placeholders as
\* RawText tokens, the placeholders as the tokens they stand for
RECURSIVE _encodeProcessedItems(_, _)
_encodeProcessedItems(src, replacements) ==
    LET item(ref) ==
            IF ref # <<>> /\ ref[1] = "#"
            THEN <<EscapedCharacter(escapedCharacter(Number(Tail(ref))))>>
            ELSE IF ref # <<>> THEN <<replacements[Number(ref) + 1]>>
            ELSE <<>>
        pre(m) == IF m.a # 1 THEN <<RawText(Sub(src, 1, m.a))>> ELSE <<>>
        found(m) ==
            IF m.ok
            THEN pre(m) \o item(Capture(src, m, 1))
                 \o _encodeProcessedItems(Sub(src, m.e, Len(src) + 1), replacements)
            ELSE IF src # <<>> THEN <<RawText(src)>> ELSE <<>>
    IN  found(regex_search(src, cReplaced, 1))

\* the last loop of _processBoldAndItalicSpans: the text tokens of tgt give
\* way to what _encodeProcessedItems makes of them, the markers stay
RECURSIVE encodedTokens(_, _)
encodedTokens(tgt, replacements) ==
    IF tgt = <<>> THEN <<>>
    ELSE (IF isMarker(tgt[1]) THEN <<tgt[1]>>
          ELSE _encodeProcessedItems(tgt[1].text, replacements))
         \o encodedTokens(Tail(tgt), replacements)

\* the encoding flags the constructors of the span tokens hand to TextHolder
mEncodingFlags(tok) ==
    IF tok.kind \in {"RawText", "PlainText"} THEN {"cAmps", "cAngles", "cQuotes"}
    ELSE IF tok.kind = "CodeSpan" THEN {"cDoubleAmps", "cAngles", "cQuotes"}
    ELSE IF tok.kind \in {"HtmlTag", "TextHolder"} THEN {"cAmps", "cAngles"}
    ELSE {}

\* TextHolder::writeAsHtml
TextHolder_writeAsHtml(tok) ==
    IF mEncodingFlags(tok) # {} THEN encodeString(tok.text, mEncodingFlags(tok))
    ELSE tok.text

\* writeAsHtml of the tokens span resolution makes
RECURSIVE spanHtml(_)
spanHtml(tok) ==
    IF isMarker(tok) THEN BoldOrItalicMarker_writeAsHtml(tok)
    ELSE IF tok.kind = "CodeSpan"
    THEN <<"<code>">> \o TextHolder_writeAsHtml(tok) \o <<"</code>">>
    ELSE IF tok.kind = "HtmlTag" THEN <<"<">> \o TextHolder_writeAsHtml(tok) \o <<">">>
    ELSE IF tok.kind = "Image"
    THEN <<"<img src=\"">> \o tok.info.url \o <<"\" alt=\"">> \o tok.text \o <<DQ>>
         \o (IF tok.info.title # <<>>
             THEN <<" title=\"">> \o tok.info.title \o <<DQ>> ELSE <<>>)
         \o <<"/>">>
    ELSE IF tok.kind = "Container"
    THEN Concat([k \in 1..Len(tok.sub) |-> spanHtml(tok.sub[k])])
    ELSE TextHolder_writeAsHtml(tok)

spansHtml(toks) == Concat([k \in 1..Len(toks) |-> spanHtml(toks[k])])

\* RawText::processSpanElements up to the list of tokens and markers that
\* the loops of _processBoldAndItalicSpans resolve: [tgt, replacements]
\* (every sub-pass leaves an empty text and its replacements as they are)
spanTokens(text, idTable) ==
    LET emphasis(c) ==
            IF c.str = <<>> THEN [tgt |-> <<>>, replacements |-> c.replacements]
            ELSE [tgt |-> EmphasisTokensFrom(c.str, 1, <<>>, 0),
                  replacements |-> c.replacements]
        links(b) ==
            IF b.str = <<>> THEN emphasis(b)
            ELSE emphasis(_processLinksImagesAndTags(
                              _processEscapedCharacters(b.str), b.replacements,
                              idTable))
        codeSpans(a) ==
            IF a.str = <<>> THEN links(a)
            ELSE links(_processCodeSpans(a.str, a.replacements))
    IN  codeSpans(_processHtmlTagAttributes(text, <<>>))

\* RawText::processSpanElements of a text without emphasis markers: the
\* loops over the markers have nothing to resolve
spansOf(text, idTable) ==
    LET with(x) == encodedTokens(x.tgt, x.replacements)
    IN  with(spanTokens(text, idTable))

----------------------------------------------------------------------------
(* Span elements (sixth pass) and rendering                                *)

\* Container::processSpanElements: the container after the pass.  A text
\* token that can hold markup gives way to its span tokens, in a Container
\* of their own when there are several
RECURSIVE processSpanElements(_, _)
processSpanElements(tok, idTable) ==
    LET grouped(subt) ==
            IF Len(subt) > 1 THEN <<Group("Container", subt)>> ELSE subt
        item(c) ==
            IF hasText(c)
            THEN IF canContainMarkup(c) THEN grouped(spansOf(c.text, idTable))
                 ELSE <<c>>
            ELSE <<processSpanElements(c, idTable)>>
    IN  [tok EXCEPT !.sub = Concat([k \in 1..Len(tok.sub) |-> item(tok.sub[k])])]

\* string(si, sii) of FencedCodeBlock::writeAsHtml: the first run of
\* characters other than space, after the leading spaces of the info string
languageOf(mInfoString) ==
    LET si  == Run(mInfoString, 1, {SP}) + 1
        sii == Min({e \in si..(Len(mInfoString) + 1) :
                       e = Len(mInfoString) + 1 \/ mInfoString[e] = SP})
    IN  Sub(mInfoString, si, sii)

\* FencedCodeBlock::writeAsHtml: who writes the contents, and the language
\* of the class attribute
FencedCodeBlock_writeAsHtml(tok) ==
    IF tok.info = <<>>
    THEN [text |-> tok.text, by |-> "core", language |-> <<>>]
    ELSE [text |-> tok.text, by |-> "highlighter",
          language |-> languageOf(tok.info)]

\* Container::writeAsHtml and the writeAsHtml of the leaves: the fenced code
\* blocks written, in the order of the stream
RECURSIVE fencedWritten(_)
fencedWritten(tok) ==
    IF isContainer(tok)
    THEN Concat([k \in 1..Len(tok.sub) |-> fencedWritten(tok.sub[k])])
    ELSE IF tok.kind = "FencedCodeBlock" THEN <<FencedCodeBlock_writeAsHtml(tok)>>
    ELSE <<>>

\* the calls mHighlighter->highlight(code, language, out) of one rendering
highlightCalls(written) ==
    LET idx == {k \in 1..Len(written) : written[k].by = "highlighter"}
        RECURSIVE pick(_)
        pick(k) == IF k > Len(written) THEN <<>>
                   ELSE (IF k \in idx
                         THEN <<[code |-> written[k].text,
                                 language |-> written[k].language]>>
                         ELSE <<>>) \o pick(k + 1)
    IN  pick(1)

----------------------------------------------------------------------------
(* Document                                                                *)

\* the calls of Document::_process, in the order of the code
cPasses == <<"_processFencedBlocks", "_mergeMultilineHtmlTags",
             "_processInlineHtmlAndReferences", "_processBlocksItems",
             "_processParagraphLines", "processSpanElements">>

\* one call of _process on the document d = [tokens, idTable, log]
runPass(name, d) ==
    LET logged == [d EXCEPT !.log = Append(@, name)]
        referenced(r) == [logged EXCEPT !.tokens.sub = r.toks,
                                        !.idTable = r.idTable]
    IN  CASE name = "_processFencedBlocks" ->
               [logged EXCEPT !.tokens.sub = _processFencedBlocks(@)]
          [] name = "_mergeMultilineHtmlTags" ->
               [logged EXCEPT !.tokens.sub = _mergeMultilineHtmlTags(@)]
          [] name = "_processInlineHtmlAndReferences" ->
               referenced(_processInlineHtmlAndReferences(d.tokens.sub, d.idTable))
          [] name = "_processBlocksItems" ->
               [logged EXCEPT !.tokens = _processBlocksItems(@)]
          [] name = "_processParagraphLines" ->
               [logged EXCEPT !.tokens = _processParagraphLines(@)]
          [] name = "processSpanElements" ->
               [logged EXCEPT !.tokens = processSpanElements(@, logged.idTable)]

\* the first k calls of names one after the other, on the document d
RECURSIVE runPasses(_, _, _)
runPasses(names, k, d) ==
    IF k = 0 THEN d ELSE runPass(names[k], runPasses(names, k - 1, d))

\* _process as it would be without the test of mProcessed
_processAlways(d) ==
    LET done(r) == [tokens |-> r.tokens, idTable |-> r.idTable,
                    processed |-> TRUE, log |-> r.log]
    IN  done(runPasses(cPasses, Len(cPasses),
                 [tokens |-> d.tokens, idTable |-> d.idTable, log |-> d.log]))

\* Document::_process on d = [tokens, idTable, processed, log]
_process(d) ==
    LET done(r) == [tokens |-> r.tokens, idTable |-> r.idTable,
                    processed |-> TRUE, log |-> r.log]
    IN  IF ~d.processed
        THEN done(runPasses(cPasses, Len(cPasses),
                 [tokens |-> d.tokens, idTable |-> d.idTable, log |-> d.log]))
        ELSE d

\* the most lines the reads of one Document hold together
MaxDocLines == 3

\* the source lines the reads are made of: fence lines without and with an
\* info string, an info string of spaces only, a block-level HTML tag, plain
\* text, the empty line, a link reference definition, a quoted line and a
\* reference link that names the definition in capital letters
DocLines ==
    { <<BQ, BQ, BQ>>,
      <<BQ, BQ, BQ, SP, "p", SP, "q">>,
      <<BQ, BQ, BQ, SP, SP>>,
      <<"<", "p", ">">>,
      <<"x">>,
      <<>>,
      <<"[", "x", "]", ":", SP, "p", SP, DQ, "T", DQ>>,
      <<">", SP, "x">>,
      <<"[", "l", "]", "[", "X", "]">> }

\* the inputs of one read: no line, one line with or without its line
\* break, or two lines with their line breaks
DocInputs ==
    LET one == {l \o <<NL>> : l \in DocLines} IN
    {<<>>} \cup DocLines \cup one \cup {a \o b : a \in one, b \in one}

\* the state of the Document as _process takes and leaves it
docState ==
    [tokens |-> mTokenContainer, idTable |-> mIdTable,
     processed |-> mProcessed, log |-> passLog]

DocInit ==
    /\ mTokenContainer = Group("Container", <<>>)
    /\ mIdTable = EmptyTable
    /\ mProcessed = FALSE
    /\ wasProcessed = FALSE
    /\ lastCall = "none"
    /\ readResult = TRUE
    /\ readInput = <<>>
    /\ linesRead = <<>>
    /\ passLog = <<>>
    /\ hlCalls = <<>>
    /\ fenceOut = <<>>

\* the loop of Document::read over each of these inputs: the tokens tgt
readTokensOf == [in \in DocInputs |-> ReadTokens(in, 1)]

\* what every read leaves behind it, whatever it returns
readCalled(in) ==
    /\ Len(linesRead) + Len(readTokensOf[in]) <= MaxDocLines
    /\ lastCall' = "read"
    /\ wasProcessed' = mProcessed
    /\ readInput' = in
    /\ hlCalls' = <<>>
    /\ fenceOut' = <<>>

\* the body of read behind its test of mProcessed: the tokens tgt are
\* appended and the call returns true
readAppended(tgt) ==
    /\ mTokenContainer' = [mTokenContainer EXCEPT !.sub = appendSubtokens(@, tgt)]
    /\ linesRead' = linesRead \o tgt
    /\ readResult' = TRUE
    /\ UNCHANGED <<mIdTable, mProcessed, passLog>>

\* read as it would be without the test of mProcessed
readWithoutGuard(in) ==
    /\ readCalled(in)
    /\ readAppended(readTokensOf[in])

\* read as it would be if the new tokens were put before the earlier ones
readPrepending(in) ==
    /\ readCalled(in)
    /\ IF mProcessed
       THEN /\ readResult' = FALSE
            /\ UNCHANGED <<mTokenContainer, mIdTable, mProcessed, linesRead,
                           passLog>>
       ELSE /\ mTokenContainer' =
                   [mTokenContainer EXCEPT !.sub = readTokensOf[in] \o @]
            /\ linesRead' = readTokensOf[in] \o linesRead
            /\ readResult' = TRUE
            /\ UNCHANGED <<mIdTable, mProcessed, passLog>>

\* Document::read(std::istream&); read(const std::string&) wraps its text
\* in a stream and calls it
read(in) ==
    /\ readCalled(in)
    /\ IF mProcessed
       THEN /\ readResult' = FALSE
            /\ UNCHANGED <<mTokenContainer, mIdTable, mProcessed, linesRead,
                           passLog>>
       ELSE readAppended(readTokensOf[in])

\* what write and writeTokens have in common: the document d that _process
\* leaves is the document from now on
processedDocument(d) ==
    /\ mTokenContainer' = d.tokens
    /\ mIdTable' = d.idTable
    /\ mProcessed' = d.processed
    /\ wasProcessed' = mProcessed
    /\ passLog' = d.log

\* Document::write
write ==
    LET rendered(written) ==
            /\ fenceOut' = written
            /\ hlCalls' = highlightCalls(written)
        processed(d) ==
            /\ processedDocument(d)
            /\ rendered(fencedWritten(d.tokens))
    IN  /\ processed(_process(docState))
        /\ lastCall' = "write"
        /\ readInput' = <<>>
        /\ UNCHANGED <<readResult, linesRead>>

\* Document::writeTokens
writeTokens ==
    /\ processedDocument(_process(docState))
    /\ lastCall' = "writeTokens"
    /\ readInput' = <<>>
    /\ fenceOut' = <<>>
    /\ hlCalls' = <<>>
    /\ UNCHANGED <<readResult, linesRead>>

----------------------------------------------------------------------------
(* A LinkIds table driven directly                                         *)

\* the most add() calls made on the table
MaxAdds == 3

LkIds == {<<"a">>, <<"A">>, <<"b">>}
LkUrls == {<<"u">>, <<"v">>}
LkTitles == {<<>>, <<"t">>}

\* lkFound when the last call was not a find()
NoFind == [called |-> FALSE, id |-> <<>>, found |-> FALSE,
           target |-> Target(<<>>, <<>>)]

LkInit ==
    /\ lkTable = EmptyTable
    /\ lkAdds = <<>>
    /\ lkFound = NoFind

\* LinkIds::add
add(id, url, title) ==
    /\ Len(lkAdds) < MaxAdds
    /\ lkTable' = LinkIds_add(lkTable, id, url, title)
    /\ lkAdds' = Append(lkAdds, [id |-> id, url |-> url, title |-> title])
    /\ lkFound' = NoFind

\* LinkIds::find
find(id) ==
    LET returned(r) ==
            lkFound' = [called |-> TRUE, id |-> id, found |-> r.found,
                        target |-> r.target]
    IN  /\ returned(LinkIds_find(lkTable, id))
        /\ UNCHANGED <<lkTable, lkAdds>>

----------------------------------------------------------------------------
(* The fence pass, one iteration of its loop at a time                     *)

\* the most lines of the text the pass runs on
MaxFenceLines == 3

\* the source lines of that text: fences of three and four characters, of
\* the other character, indented by three and by four spaces, followed by
\* spaces, by a tab and by an info string, the empty line and plain text
FenceLines ==
    { <<BQ, BQ, BQ>>,
      <<BQ, BQ, BQ, BQ>>,
      <<"~", "~", "~">>,
      <<SP, SP, SP, BQ, BQ, BQ, SP>>,
      <<SP, SP, SP, SP, BQ, BQ, BQ>>,
      <<BQ, BQ, BQ, "\t">>,
      <<BQ, BQ, BQ, "x">>,
      <<>>,
      <<SP, SP, "x">> }

\* the texts of at most n lines of the set lines, each ended by a line break
RECURSIVE TextsOf(_, _)
TextsOf(lines, n) ==
    IF n = 0 THEN {<<>>}
    ELSE LET shorter == TextsOf(lines, n - 1) IN
         shorter \cup {t \o l \o <<NL>> : t \in shorter, l \in lines}

FcInit ==
    /\ fcTokens \in {ReadTokens(t, 1) : t \in TextsOf(FenceLines, MaxFenceLines)}
    /\ fcPos = 1
    /\ fcOut = <<>>
    /\ fcSpans = <<>>

\* what an iteration of the loop of _processFencedBlocks leaves: the token
\* st.tok is kept and the cursor stands at st.next
fenceIteration(st) ==
    /\ fcOut' = Append(fcOut, st.tok)
    /\ fcSpans' = Append(fcSpans, <<fcPos, st.next - 1>>)
    /\ fcPos' = st.next
    /\ UNCHANGED fcTokens

\* an iteration in which parseFencedCodeBlock returns a block
fenceBlock ==
    /\ fcPos <= Len(fcTokens)
    /\ parseFencedCodeBlock(fcTokens, fcPos).ok
    /\ fenceIteration(FencedBlocksStep(fcTokens, fcPos))

\* an iteration in which it returns none and the line is kept
fenceKeep ==
    /\ fcPos <= Len(fcTokens)
    /\ ~parseFencedCodeBlock(fcTokens, fcPos).ok
    /\ fenceIteration(FencedBlocksStep(fcTokens, fcPos))

----------------------------------------------------------------------------
(* Emphasis resolution: the two loops of _processBoldAndItalicSpans over   *)
(* the list tgt.  Only the markers of tgt are kept: the RawText tokens     *)
(* between them answer false to every test the loops make                  *)

\* the most characters the markers of the initial list hold together
MaxRunTotal == 6
\* the most splits followed in one resolution
MaxSplits == 3

\* the position in tgt of the marker with identity uid
posOf(tgt, uid) == CHOOSE k \in 1..Len(tgt) : tgt[k].uid = uid

\* the first position from from on whose marker is in the set of positions
\* ps, Len(tgt)+1 when there is none
firstFrom(tgt, from, ps) ==
    Min({k \in from..Len(tgt) : k \in ps} \cup {Len(tgt) + 1})

unmatchedOpens(tgt) == {k \in 1..Len(tgt) : isUnmatchedOpenMarker(tgt[k])}
unmatchedCloses(tgt) == {k \in 1..Len(tgt) : isUnmatchedCloseMarker(tgt[k])}
matchedMarkers(tgt) ==
    {k \in 1..Len(tgt) : isMatchedOpenMarker(tgt[k]) \/ isMatchedCloseMarker(tgt[k])}

\* tgt.splice(after, g) with after the position behind k
splice(tgt, k, g) == SubSeq(tgt, 1, k) \o g \o SubSeq(tgt, k + 1, Len(tgt))

\* the test closeToken->size()==3 && openToken->size()!=3
splitsClose(closeToken, openToken) == closeToken.mSize = 3 /\ openToken.mSize # 3

\* the test of the pair: same character and same size
markersMatch(closeToken, openToken) ==
    /\ closeToken.mTokenCharacter = openToken.mTokenCharacter
    /\ closeToken.mSize = openToken.mSize

\* the unmatching as it would be without close->matchedTo()->matched(0)
unmatchCloseOnly(tgt, k) == [tgt EXCEPT ![k] = unmatched(@)]

\* close->matchedTo()->matched(0); close->matched(0)
unmatchPair(tgt, k) ==
    LET o == posOf(tgt, tgt[k].mMatch) IN
    [tgt EXCEPT ![o] = unmatched(@), ![k] = unmatched(@)]

\* the test as it would be if it compared the close marker with itself
neverBadlyNested(tgt, close, stack) == close.mId # close.mId

\* close->id() != openMatches.top()->id()
badlyNested(tgt, close, stack) ==
    close.mId # tgt[posOf(tgt, stack[Len(stack)])].mId

\* openMatches.pop(), then pop while the top is no longer matched
RECURSIVE popUnmatched(_, _)
popUnmatched(tgt, stack) ==
    IF stack # <<>> /\ tgt[posOf(tgt, stack[Len(stack)])].mMatch = 0
    THEN popUnmatched(tgt, SubSeq(stack, 1, Len(stack) - 1))
    ELSE stack

EmInit ==
    /\ emTgt \in {markersOf(kinds) : kinds \in KindLists(MaxRunTotal)}
    /\ emPc = "scan"
    /\ emI = 1
    /\ emJ = 1
    /\ emId = 0
    /\ emStack = <<>>
    /\ emNext = Len(emTgt) + 1
    /\ emSplits = <<>>
    /\ emHtml = <<>>

\* the outer loop reaches the next unmatched open marker
emOpen ==
    /\ emPc = "scan"
    /\ LET k == firstFrom(emTgt, emI, unmatchedOpens(emTgt)) IN
       /\ k <= Len(emTgt)
       /\ emI' = k
       /\ emJ' = k + 1
    /\ emPc' = "inner"
    /\ UNCHANGED <<emTgt, emId, emStack, emNext, emSplits>>

\* the outer loop ends: the second loop starts
emScanEnd ==
    /\ emPc = "scan"
    /\ firstFrom(emTgt, emI, unmatchedOpens(emTgt)) > Len(emTgt)
    /\ emPc' = "unmatch"
    /\ emI' = 1
    /\ UNCHANGED <<emTgt, emJ, emId, emStack, emNext, emSplits>>

\* the inner loop ends without a match
emInnerEnd ==
    /\ emPc = "inner"
    /\ firstFrom(emTgt, emJ, unmatchedCloses(emTgt)) > Len(emTgt)
    /\ emPc' = "scan"
    /\ emI' = emI + 1
    /\ UNCHANGED <<emTgt, emJ, emId, emStack, emNext, emSplits>>

\* the close marker is split
emSplitClose ==
    /\ emPc = "inner"
    /\ Len(emSplits) < MaxSplits
    /\ LET j == firstFrom(emTgt, emJ, unmatchedCloses(emTgt)) IN
       /\ j <= Len(emTgt)
       /\ splitsClose(emTgt[j], emTgt[emI])
       /\ LET closeToken == emTgt[j]
              openToken  == emTgt[emI]
              g == <<BoldOrItalicMarker(emNext, FALSE, closeToken.mTokenCharacter,
                                        closeToken.mSize - openToken.mSize),
                     BoldOrItalicMarker(emNext + 1, FALSE,
                                        closeToken.mTokenCharacter, openToken.mSize)>>
          IN  /\ emTgt' = splice([emTgt EXCEPT ![j] = disable(@)], j, g)
              /\ emSplits' = Append(emSplits,
                     [of |-> closeToken.uid, size |-> closeToken.mSize,
                      sizes |-> <<g[1].mSize, g[2].mSize>>])
       /\ emJ' = j + 1
    /\ emNext' = emNext + 2
    /\ UNCHANGED <<emPc, emI, emId, emStack>>

\* the pair is matched
emMatch ==
    /\ emPc = "inner"
    /\ LET j == firstFrom(emTgt, emJ, unmatchedCloses(emTgt)) IN
       /\ j <= Len(emTgt)
       /\ ~splitsClose(emTgt[j], emTgt[emI])
       /\ markersMatch(emTgt[j], emTgt[emI])
       /\ emTgt' = [emTgt EXCEPT ![emI] = matched(@, emTgt[j].uid, emId),
                                 ![j] = matched(@, emTgt[emI].uid, emId)]
       /\ emJ' = j
    /\ emId' = emId + 1
    /\ emPc' = "scan"
    /\ emI' = emI + 1
    /\ UNCHANGED <<emStack, emNext, emSplits>>

\* the open marker is split
emSplitOpen ==
    /\ emPc = "inner"
    /\ Len(emSplits) < MaxSplits
    /\ LET j == firstFrom(emTgt, emJ, unmatchedCloses(emTgt)) IN
       /\ j <= Len(emTgt)
       /\ ~splitsClose(emTgt[j], emTgt[emI])
       /\ ~markersMatch(emTgt[j], emTgt[emI])
       /\ emTgt[emI].mSize = 3
       /\ LET closeToken == emTgt[j]
              openToken  == emTgt[emI]
              g == <<BoldOrItalicMarker(emNext, TRUE, openToken.mTokenCharacter,
                                        openToken.mSize - closeToken.mSize),
                     BoldOrItalicMarker(emNext + 1, TRUE,
                                        openToken.mTokenCharacter, closeToken.mSize)>>
          IN  /\ emTgt' = splice([emTgt EXCEPT ![emI] = disable(@)], emI, g)
              /\ emSplits' = Append(emSplits,
                     [of |-> openToken.uid, size |-> openToken.mSize,
                      sizes |-> <<g[1].mSize, g[2].mSize>>])
       /\ emJ' = j
    /\ emNext' = emNext + 2
    /\ emPc' = "scan"
    /\ emI' = emI + 1
    /\ UNCHANGED <<emId, emStack>>

\* the close marker is passed over
emPass ==
    /\ emPc = "inner"
    /\ LET j == firstFrom(emTgt, emJ, unmatchedCloses(emTgt)) IN
       /\ j <= Len(emTgt)
       /\ ~splitsClose(emTgt[j], emTgt[emI])
       /\ ~markersMatch(emTgt[j], emTgt[emI])
       /\ emTgt[emI].mSize # 3
       /\ emJ' = j + 1
    /\ UNCHANGED <<emTgt, emPc, emI, emId, emStack, emNext, emSplits>>

\* second loop: a matched open marker is pushed
emPush ==
    /\ emPc = "unmatch"
    /\ LET k == firstFrom(emTgt, emI, matchedMarkers(emTgt)) IN
       /\ k <= Len(emTgt)
       /\ isMatchedOpenMarker(emTgt[k])
       /\ emStack' = Append(emStack, emTgt[k].uid)
       /\ emI' = k + 1
    /\ UNCHANGED <<emTgt, emPc, emJ, emId, emNext, emSplits>>

\* second loop: a matched close marker that does not close the top
emUnmatch ==
    /\ emPc = "unmatch"
    /\ emStack # <<>>
    /\ LET k == firstFrom(emTgt, emI, matchedMarkers(emTgt)) IN
       /\ k <= Len(emTgt)
       /\ isMatchedCloseMarker(emTgt[k])
       /\ badlyNested(emTgt, emTgt[k], emStack)
       /\ emTgt' = unmatchPair(emTgt, k)
       /\ emI' = k + 1
    /\ UNCHANGED <<emPc, emJ, emId, emStack, emNext, emSplits>>

\* second loop: a matched close marker that closes the top
emPop ==
    /\ emPc = "unmatch"
    /\ emStack # <<>>
    /\ LET k == firstFrom(emTgt, emI, matchedMarkers(emTgt)) IN
       /\ k <= Len(emTgt)
       /\ isMatchedCloseMarker(emTgt[k])
       /\ ~badlyNested(emTgt, emTgt[k], emStack)
       /\ emStack' = popUnmatched(emTgt, SubSeq(emStack, 1, Len(emStack) - 1))
       /\ emI' = k + 1
    /\ UNCHANGED <<emTgt, emPc, emJ, emId, emNext, emSplits>>

\* the second loop ends
emUnmatchEnd ==
    /\ emPc = "unmatch"
    /\ firstFrom(emTgt, emI, matchedMarkers(emTgt)) > Len(emTgt)
    /\ emPc' = "done"
    /\ UNCHANGED <<emTgt, emI, emJ, emId, emStack, emNext, emSplits>>

\* the resolved list is rendered: each marker writes itself, in list order
emWrite ==
    /\ emPc = "done"
    /\ emTgt # <<>>
    /\ emPc' = "written"
    /\ emHtml' = [k \in 1..Len(emTgt) |-> BoldOrItalicMarker_writeAsHtml(emTgt[k])]
    /\ UNCHANGED <<emTgt, emI, emJ, emId, emStack, emNext, emSplits>>

----------------------------------------------------------------------------
(* RawText::processSpanElements of one text, sub-pass by sub-pass, and the  *)
(* rendering of its tokens                                                  *)

\* the characters of cEscapedCharacters
Escapable == {cEscapedCharacters[k] : k \in 1..Len(cEscapedCharacters)}

\* texts with a backslash before each kind of character and at the end
EscapeTexts ==
    LET cs == Escapable \cup {"a", SP} IN
    {<<"\\", c>> : c \in cs} \cup {<<"a", "\\", c, "b">> : c \in cs}
    \cup {<<"\\">>, <<"a", "\\">>, <<"\\", "\\", "\\">>,
          <<"\\", "*", "a", "*">>, <<"*", "a", "\\", "*">>,
          <<"\\", "*", "a", "\\", "*">>, <<"\\", "_", "a", "\\", "_">>,
          <<"*", "\\", "*", "*">>, <<"*", "a", "\\", "*", "*">>,
          <<"\\", BQ, "a", "\\", BQ>>, <<"\\", BQ, "a", BQ>>,
          <<BQ, "\\", "*", BQ>>, <<"\\", "[", "x", "\\", "]">>}

\* texts with emphasis markers of every fate
EmphasisTexts ==
    {<<"*", "a", "*">>, <<"*", "*", "a", "*", "*">>, <<"_", "a", "_">>,
     <<"*", "*", "*", "a", "*", "*", "*">>, <<"*", "a", "*", "*", "*">>,
     <<"*", "*", "*", "a", "*">>, <<"*", "a", "*", "*">>, <<"*", "a">>,
     <<"a", "*">>, <<"a", "_", "b">>, <<"a", " ", "*", " ", "b">>,
     <<"*", "a", " ", "_", "b", "*", " ", "c", "_">>,
     <<"*", "a", " ", BQ, "*", BQ, "*">>}

\* texts with links, images, tags and candidates for them
LinkTexts ==
    {<<"[", "l", "]", "[", "n", "]">>, <<"[", "l", "]", "[", "x", "]">>,
     <<"[", "l", "]", "[", "X", "]">>, <<"[", "l", "]", " ", "[", "x", "]">>,
     <<"[", "l", "]", "[", "n", "]", "[", "x", "]">>,
     <<"[", "l", "]", "[", "n", "]", " ", "[", "x", "]">>,
     <<"a", "[", "n", "]", "b">>, <<"[", "x", "]">>, <<"[", "x", "]", "[", "]">>,
     <<"!", "[", "l", "]", "[", "n", "]">>, <<"!", "[", "l", "]", "[", "x", "]">>,
     <<"!", "[", "n", "]", "[", "x", "]">>, <<"[", "n", "]", "!", "[", "x", "]">>,
     <<"[", "[", "n", "]", "]">>, <<"[", "n", "]", "[", "l", "]">>,
     <<"[", "l", "]", "(", "u", ")">>, <<"[", "l", "]", "(", "u", " ", "v", ")">>,
     <<"!", "[", "l", "]", "(", "u", ")">>, <<"<", "p", ">">>, <<"<", "q", ">">>,
     <<"<", "a", " ", "b", "=", DQ, "*", DQ, ">">>, <<"a", "b">>, <<>>}

SpTexts == EscapeTexts \cup EmphasisTexts \cup LinkTexts

\* the tables handed in: none, and one that knows the id x
SpTables ==
    {EmptyTable, LinkIds_add(EmptyTable, <<"x">>, <<"/", "y">>, <<"T">>)}

\* the markers of the token list, as the loops over tgt see them
markersIn(tgt) == SelectSeq(tgt, isMarker)

\* the token list with its markers as the loops left them: a marker gives
\* way to itself and the markers that were spliced in behind it
RECURSIVE withResolved(_, _)
withResolved(tgt, markers) ==
    IF tgt = <<>> THEN <<>>
    ELSE IF ~isMarker(tgt[1]) THEN <<tgt[1]>> \o withResolved(Tail(tgt), markers)
    ELSE LET from == posOf(markers, tgt[1].uid)
             later == {k \in from + 1..Len(markers) :
                          markers[k].uid = tgt[1].uid + 1}
             to == IF later = {} THEN Len(markers) + 1 ELSE Min(later)
         IN  Sub(markers, from, to) \o withResolved(Tail(tgt), markers)

SpInit ==
    /\ spText \in SpTexts
    /\ spIdTable \in SpTables
    /\ spPc = "start"
    /\ spStr = spText
    /\ spReplacements = <<>>
    /\ spTgt = <<>>
    /\ spOut = <<>>

\* str=_processHtmlTagAttributes(*text(), replacements)
spAttributes ==
    /\ spPc = "start"
    /\ LET with(r) == /\ spStr' = r.str
                      /\ spReplacements' = r.replacements
       IN  with(_processHtmlTagAttributes(spStr, spReplacements))
    /\ spPc' = "attributes"
    /\ UNCHANGED <<spText, spIdTable, spTgt, spOut>>

\* str=_processCodeSpans(str, replacements)
spCodeSpans ==
    /\ spPc = "attributes"
    /\ LET with(r) == /\ spStr' = r.str
                      /\ spReplacements' = r.replacements
       IN  with(_processCodeSpans(spStr, spReplacements))
    /\ spPc' = "codeSpans"
    /\ UNCHANGED <<spText, spIdTable, spTgt, spOut>>

\* str=_processEscapedCharacters(str)
spEscapes ==
    /\ spPc = "codeSpans"
    /\ spStr' = _processEscapedCharacters(spStr)
    /\ spPc' = "escapes"
    /\ UNCHANGED <<spText, spIdTable, spReplacements, spTgt, spOut>>

\* str=_processLinksImagesAndTags(str, replacements, idTable)
spLinks ==
    /\ spPc = "escapes"
    /\ LET with(r) == /\ spStr' = r.str
                      /\ spReplacements' = r.replacements
       IN  with(_processLinksImagesAndTags(spStr, spReplacements, spIdTable))
    /\ spPc' = "links"
    /\ UNCHANGED <<spText, spIdTable, spTgt, spOut>>

\* _processBoldAndItalicSpans, its first loop: the loops over the markers
\* follow
spTokens ==
    /\ spPc = "links"
    /\ LET with(tgt) ==
               /\ spTgt' = tgt
               /\ emTgt' = markersIn(tgt)
               /\ emNext' = Len(markersIn(tgt)) + 1
       IN  with(EmphasisTokensFrom(spStr, 1, <<>>, 0))
    /\ spPc' = "markers"
    /\ emPc' = "scan"
    /\ emI' = 1
    /\ emJ' = 1
    /\ emId' = 0
    /\ emStack' = <<>>
    /\ emSplits' = <<>>
    /\ UNCHANGED <<spText, spIdTable, spStr, spReplacements, spOut>>

\* _processBoldAndItalicSpans, its last loop
spEncode ==
    /\ spPc = "markers"
    /\ emPc = "done"
    /\ spTgt' = encodedTokens(withResolved(spTgt, emTgt), spReplacements)
    /\ spPc' = "encoded"
    /\ UNCHANGED <<spText, spIdTable, spStr, spReplacements, spOut>>

\* the tokens are written one after the other, Container::writeAsHtml
spWrite ==
    /\ spPc = "encoded"
    /\ spOut' = spansHtml(spTgt)
    /\ spPc' = "written"
    /\ UNCHANGED <<spText, spIdTable, spStr, spReplacements, spTgt>>

----------------------------------------------------------------------------
(* Document::read of one stream, call of _getline by call of _getline      *)

\* the most characters of a stream of letters, line breaks and tabs
MaxStreamLen == 5

StreamChars == {"a", NL, "\r", "\t"}
BreakTexts == UNION {[1..n -> StreamChars] : n \in 0..MaxStreamLen}

\* the most pieces of a line of spaces, comment marks and letters
MaxPieces == 5

CommentPieces ==
    { <<SP>>, <<"x">>, <<"<", "!", "-", "-">>, <<"<", "-", "-">>,
      <<"-", "-", ">">>, <<"-", "-", SP, ">">> }
PieceTexts ==
    {Concat(ps) : ps \in UNION {[1..n -> CommentPieces] : n \in 1..MaxPieces}}

\* the streams that are read
RdTexts == BreakTexts \cup PieceTexts

RdInit ==
    /\ rdIn \in RdTexts
    /\ rdPos = 1
    /\ rdTgt = <<>>
    /\ rdPc = "reading"

\* one round of the while loop of Document::read: _getline gives a line,
\* and the line is pushed to tgt as a BlankLine or a RawText
rdLine ==
    LET pushed(g) ==
            /\ g.ok
            /\ rdPos' = g.pos
            /\ rdTgt' = Append(rdTgt, IF isBlankLine(g.line) THEN BlankLine(g.line)
                                      ELSE RawText(g.line))
    IN  /\ rdPc = "reading"
        /\ pushed(_getline(rdIn, rdPos))
        /\ UNCHANGED <<rdIn, rdPc>>

\* _getline returns false: the stream is at its end and the loop is left
rdEnd ==
    /\ rdPc = "reading"
    /\ ~_getline(rdIn, rdPos).ok
    /\ rdPos' = Len(rdIn) + 1
    /\ rdPc' = "done"
    /\ UNCHANGED <<rdIn, rdTgt>>

----------------------------------------------------------------------------
(* The passes of _process over the lines of a container, from             *)
(* _processFencedBlocks to _processParagraphLines, one call of a          *)
(* recognizer after the other                                              *)

\* the most lines of a container of list, quote and paragraph lines, of a
\* container of lines of every shape, and of a container of the lines of a
\* list item
MaxBkLines == 4
MaxAnyLines == 2
MaxItemLines == 4

\* the letter of the k-th line of a container
LineLetter(k) == <<"a", "b", "c", "d", "e", "f">>[k]

\* the lines with the letter x.  "core": items of two unordered markers,
\* quoted lines of level 1 and 2, a plain line, the empty line and an
\* indented item.  "any": these and an ordered item, an indented line, a
\* header, a rule, a block tag, a span tag, a reference definition and a
\* fence.  "item": an item, the empty line, a plain line, a line that ends
\* in two spaces, lines indented by 4 and by 8 spaces, and an indented item
\* whose content starts with '-'
Shapes(family, x) ==
    LET core == { <<"-", SP, x>>, <<"+", SP, x>>, <<">", SP, x>>,
                  <<">", ">", SP, x>>, <<x>>, <<>>, <<SP, "-", SP, x>> }
    IN  CASE family = "core" -> core
          [] family = "any" ->
                core \cup
                { <<"1", ".", SP, x>>, <<SP, SP, SP, SP, x>>, <<"#", SP, x>>,
                  <<"-", "-", "-">>, <<"<", "p", ">">>, <<"<", "q", ">", x>>,
                  <<"[", x, "]", ":", SP, "u">>, <<BQ, BQ, BQ>> }
          [] family = "item" ->
                { <<"-", SP, x>>, <<>>, <<x>>, <<x, SP, SP>>,
                  <<SP, SP, SP, SP, x>>,
                  <<SP, SP, SP, SP, SP, SP, SP, SP, x>>,
                  <<SP, "-", SP, "-", x>> }

\* the containers of n lines
RECURSIVE BkLines(_, _)
BkLines(n, family) ==
    IF n = 0 THEN {<<>>}
    ELSE {Append(d, l) : d \in BkLines(n - 1, family),
                         l \in Shapes(family, LineLetter(n))}

BkDocs ==
    UNION {BkLines(n, "any") : n \in 1..MaxAnyLines}
    \cup UNION {BkLines(n, "core") : n \in 1..MaxBkLines}
    \cup UNION {BkLines(n, "item") : n \in 1..MaxItemLines}

\* the tokens Document::read makes of lines
lineTokens(lines) ==
    [k \in 1..Len(lines) |->
        IF isBlankLine(lines[k]) THEN BlankLine(lines[k]) ELSE RawText(lines[k])]

\* the locals of a loop before its first iteration
StartSt ==
    [processed |-> <<>>, accu |-> <<>>, isPrevParagraph |-> FALSE,
     isPrevBlockQuote |-> FALSE]
NoSub == [isBlockQuote |-> FALSE, subitem |-> <<>>]
NoCall ==
    [name |-> "none", ok |-> TRUE,
     given |-> [i |-> 1, subTokens |-> <<>>, idTable |-> EmptyTable],
     left |-> [i |-> 1, subTokens |-> <<>>, idTable |-> EmptyTable]]

\* the call of a recognizer at the cursor bkPos: what it was given and what
\* it left of the cursor, the quote buffer and the link reference table
\* (no recognizer is handed the list processed)
Called(name, ok, i, subTokens, idTable) ==
    [name |-> name, ok |-> ok,
     given |-> [i |-> bkPos, subTokens |-> bkSt.accu, idTable |-> bkTable],
     left |-> [i |-> i, subTokens |-> subTokens, idTable |-> idTable]]

BkInit ==
    /\ bkIn \in BkDocs
    /\ bkToks = lineTokens(bkIn)
    /\ bkPos = 1
    /\ bkSt = StartSt
    /\ bkTable = EmptyTable
    /\ bkPc = "fenced"
    /\ bkSub = NoSub
    /\ bkCall = NoCall
    /\ bkOut = <<>>

\* an iteration of the for loop of _processFencedBlocks
bkFenced ==
    LET step(r) ==
            /\ bkCall' = Called("parseFencedCodeBlock", r.ok, r.i, bkSt.accu, bkTable)
            /\ bkSt' = [bkSt EXCEPT !.processed =
                            Append(@, IF r.ok THEN r.tok ELSE bkToks[r.i])]
            /\ bkPos' = r.i + 1
    IN  /\ bkPc = "fenced"
        /\ bkPos <= Len(bkToks)
        /\ step(parseFencedCodeBlock(bkToks, bkPos))
        /\ UNCHANGED <<bkIn, bkToks, bkTable, bkPc, bkSub, bkOut>>

\* the end of _processFencedBlocks, and _mergeMultilineHtmlTags
bkMerge ==
    /\ bkPc = "fenced"
    /\ bkPos > Len(bkToks)
    /\ bkToks' = _mergeMultilineHtmlTags(bkSt.processed)
    /\ bkPos' = 1
    /\ bkSt' = StartSt
    /\ bkPc' = "html"
    /\ bkCall' = NoCall
    /\ UNCHANGED <<bkIn, bkTable, bkSub, bkOut>>

\* _processInlineHtmlAndReferences tries parseInlineHtml at the first line
\* and behind a blank line
htmlTried ==
    /\ hasText(bkToks[bkPos])
    /\ IF bkSt.processed = <<>> THEN TRUE
       ELSE tokIsBlankLine(bkSt.processed[Len(bkSt.processed)])

\* an iteration of the for loop of _processInlineHtmlAndReferences up to
\* the call of parseReference: a token without text is kept, an inline
\* HTML block is pushed
bkInlineHtml ==
    LET kept ==
            /\ bkSt' = [bkSt EXCEPT !.processed = Append(@, bkToks[bkPos])]
            /\ bkPos' = bkPos + 1
            /\ UNCHANGED <<bkPc, bkCall>>
        step(r) ==
            /\ bkCall' = Called("parseInlineHtml", r.ok, r.i, bkSt.accu, bkTable)
            /\ bkSt' = IF r.ok THEN [bkSt EXCEPT !.processed = Append(@, r.tok)]
                       ELSE bkSt
            /\ bkPos' = IF r.ok THEN r.i + 1 ELSE r.i
            /\ bkPc' = IF r.ok THEN "html" ELSE "reference"
    IN  /\ bkPc = "html"
        /\ bkPos <= Len(bkToks)
        /\ ~hasText(bkToks[bkPos]) \/ htmlTried
        /\ IF ~hasText(bkToks[bkPos]) THEN kept
           ELSE step(parseInlineHtml(bkToks, bkPos))
        /\ UNCHANGED <<bkIn, bkToks, bkTable, bkSub, bkOut>>

\* the rest of the iteration: parseReference, and the line is kept when it
\* is no reference
bkReference ==
    LET step(r) ==
            /\ bkCall' = Called("parseReference", r.ok, r.i, bkSt.accu, r.idTable)
            /\ bkTable' = r.idTable
            /\ bkSt' = IF r.ok THEN bkSt
                       ELSE [bkSt EXCEPT !.processed = Append(@, bkToks[r.i])]
            /\ bkPos' = r.i + 1
            /\ bkPc' = "html"
    IN  /\ bkPos <= Len(bkToks)
        /\ bkPc = "reference" \/ (bkPc = "html" /\ hasText(bkToks[bkPos]) /\ ~htmlTried)
        /\ step(parseReference(bkToks, bkPos, bkTable))
        /\ UNCHANGED <<bkIn, bkToks, bkSub, bkOut>>

\* the end of _processInlineHtmlAndReferences; _processBlocksItems starts
bkBlocks ==
    /\ bkPc = "html"
    /\ bkPos > Len(bkToks)
    /\ bkToks' = bkSt.processed
    /\ bkPos' = 1
    /\ bkSt' = StartSt
    /\ bkPc' = "quote"
    /\ bkSub' = NoSub
    /\ bkCall' = NoCall
    /\ UNCHANGED <<bkIn, bkTable, bkOut>>

\* an iteration of the for loop of _processBlocksItems at a token with
\* text: parseBlockQuote
bkBlockQuote ==
    LET step(r) ==
            /\ bkCall' = Called("parseBlockQuote", r.ok, r.i, r.subTokens, bkTable)
            /\ bkSt' = [bkSt EXCEPT !.accu = r.subTokens]
            /\ bkPos' = r.i
            /\ bkSub' = [isBlockQuote |-> r.ok, subitem |-> <<>>]
            /\ bkPc' = IF holdsUndefined(r.subTokens) THEN "undefined"
                       ELSE IF r.i <= Len(bkToks) THEN "rule" ELSE "switch"
    IN  /\ bkPc = "quote"
        /\ bkPos <= Len(bkToks)
        /\ hasText(bkToks[bkPos])
        /\ step(parseBlockQuote(bkSt.accu, bkToks, bkPos))
        /\ UNCHANGED <<bkIn, bkToks, bkTable, bkOut>>

\* the call of one recognizer of the chain at the cursor, which is at a
\* token: r is what it returns, nextPc the recognizer after it.  After
\* undefined behaviour no step of the program is known: the place is
\* "undefined" and no action is enabled there
Subitem(name, r, nextPc) ==
    /\ bkCall' = Called(name, r.ok, r.i, bkSt.accu, bkTable)
    /\ bkPos' = r.i
    /\ bkSub' = [bkSub EXCEPT !.subitem = IF r.ok THEN <<r.tok>> ELSE <<>>]
    /\ bkPc' = IF r.ok /\ holdsUndefined(<<r.tok>>) THEN "undefined"
               ELSE IF r.ok THEN "switch" ELSE nextPc
    /\ UNCHANGED <<bkIn, bkToks, bkSt, bkTable, bkOut>>

bkHorizontalRule ==
    /\ bkPc = "rule"
    /\ bkPos <= Len(bkToks)
    /\ Subitem("parseHorizontalRule", parseHorizontalRule(bkToks, bkPos), "list")

bkListBlock ==
    /\ bkPc = "list"
    /\ bkPos <= Len(bkToks)
    /\ Subitem("parseListBlock", parseListBlock(bkToks, bkPos, FALSE), "header")

bkHeader ==
    /\ bkPc = "header"
    /\ bkPos <= Len(bkToks)
    /\ Subitem("parseHeader", parseHeader(bkToks, bkPos),
               IF bkSt.isPrevParagraph THEN "switch" ELSE "code")

bkCodeBlock ==
    /\ bkPc = "code"
    /\ bkPos <= Len(bkToks)
    /\ Subitem("parseCodeBlock", parseCodeBlock(bkToks, bkPos), "switch")

\* the switch on status, for a token without text too, and the end of the
\* iteration
bkSwitch ==
    LET status ==
            IF bkPc = "quote" THEN IF isContainer(bkToks[bkPos]) THEN 6 ELSE 0
            ELSE IF bkSub.isBlockQuote
            THEN IF bkSub.subitem # <<>> THEN 1
                 ELSE IF bkPos <= Len(bkToks) THEN 2 ELSE 3
            ELSE IF bkSub.subitem # <<>> THEN 4 ELSE 5
        bq == [ok |-> bkSub.isBlockQuote, subTokens |-> bkSt.accu, i |-> bkPos]
        subitem(s) ==
            [ok |-> s \in {1, 4}, i |-> bkPos,
             tok |-> IF s \in {1, 4} THEN bkSub.subitem[1] ELSE <<>>]
        tok(s) == IF s \in {5, 6} THEN bkToks[bkPos] ELSE <<>>
        switch(s) == blockItem(bkToks, tok(s), bkSt, bq, subitem(s), s)
    IN  /\ \/ bkPc = "switch"
           \/ bkPc = "quote" /\ bkPos <= Len(bkToks) /\ ~hasText(bkToks[bkPos])
        /\ bkSt' = switch(status)
        /\ bkPos' = IF bkPos > Len(bkToks) THEN bkPos ELSE bkPos + 1
        /\ bkPc' = IF holdsUndefined(bkSt'.processed) THEN "undefined" ELSE "quote"
        /\ bkSub' = NoSub
        /\ UNCHANGED <<bkIn, bkToks, bkTable, bkCall, bkOut>>

\* the end of the loop of _processBlocksItems: swapSubtokens(processed)
bkBlocksEnd ==
    /\ bkPc = "quote"
    /\ bkPos > Len(bkToks)
    /\ bkPc' = "paragraphs"
    /\ UNCHANGED <<bkIn, bkToks, bkPos, bkSt, bkTable, bkSub, bkCall, bkOut>>

\* _processParagraphLines(mTokenContainer)
bkParagraphs ==
    /\ bkPc = "paragraphs"
    /\ bkOut' = _processParagraphLines(Group("Container", bkSt.processed))
    /\ bkPc' = "done"
    /\ UNCHANGED <<bkIn, bkToks, bkPos, bkSt, bkTable, bkSub, bkCall>>

----------------------------------------------------------------------------
(* encodeString, called once on a text                                     *)

\* the most pieces a text is made of
MaxEnPieces == 3

\* the pieces of the texts: an ampersand alone, the three entities that are
\* passed through, entities with too many digits and with a capital X, and
\* the other characters that the flags change
EnPieces ==
    {<<"&">>, <<"&", "a", "m", "p", ";">>, <<"&", "#", "1", ";">>,
     <<"&", "#", "x", "1", "f", ";">>, <<"&", "#", "1", "2", "3", "4", ";">>,
     <<"&", "#", "X", "1", ";">>, <<"a">>, <<SP>>, <<"<">>, <<DQ>>}

RECURSIVE EnTexts(_)
EnTexts(n) ==
    IF n = 0 THEN {<<>>}
    ELSE EnTexts(n - 1) \cup {t \o p : t \in EnTexts(n - 1), p \in EnPieces}

\* the flag sets the library encodes with, and the two single flags
EnFlagSets ==
    {{"cAmps"}, {"cAmps", "cAngles"}, {"cQuotes", "cAmps"}, {"cDoubleAmps"},
     {"cAngles"}}

EnInit ==
    /\ enSrc \in EnTexts(MaxEnPieces)
    /\ enFlags \in EnFlagSets
    /\ enOut = <<>>
    /\ enPc = "call"

\* tgt = encodeString(src, encodingFlags)
enEncode ==
    /\ enPc = "call"
    /\ enOut' = encodeString(enSrc, enFlags)
    /\ enPc' = "done"
    /\ UNCHANGED <<enSrc, enFlags>>

----------------------------------------------------------------------------
(* Specifications                                                          *)

\* the variables of the parts a specification does not drive
LkIdle == lkTable = EmptyTable /\ lkAdds = <<>> /\ lkFound = NoFind
FcIdle == fcTokens = <<>> /\ fcPos = 1 /\ fcOut = <<>> /\ fcSpans = <<>>
EmIdle ==
    /\ emTgt = <<>> /\ emPc = "done" /\ emI = 1 /\ emJ = 1 /\ emId = 0
    /\ emStack = <<>> /\ emNext = 1 /\ emSplits = <<>> /\ emHtml = <<>>
SpIdle ==
    /\ spText = <<>> /\ spIdTable = EmptyTable /\ spPc = "written" /\ spStr = <<>>
    /\ spReplacements = <<>> /\ spTgt = <<>> /\ spOut = <<>>
RdIdle == rdIn = <<>> /\ rdPos = 1 /\ rdTgt = <<>> /\ rdPc = "done"
BkIdle ==
    /\ bkIn = <<>> /\ bkToks = <<>> /\ bkPos = 1 /\ bkSt = StartSt
    /\ bkTable = EmptyTable /\ bkPc = "done" /\ bkSub = NoSub /\ bkCall = NoCall
    /\ bkOut = <<>>
EnIdle == enSrc = <<>> /\ enFlags = {} /\ enOut = <<>> /\ enPc = "done"
OtherIdle == SpIdle /\ RdIdle /\ BkIdle /\ EnIdle

\* the variables each specification leaves alone
otherVars == <<spVars, rdVars, bkVars, enVars>>
exceptDoc == <<lkVars, fcVars, emVars, wrVars, otherVars>>
exceptLk == <<docVars, fcVars, emVars, wrVars, otherVars>>
exceptFc == <<docVars, lkVars, emVars, wrVars, otherVars>>
exceptEm == <<docVars, lkVars, fcVars, otherVars>>
exceptSp == <<docVars, lkVars, fcVars, wrVars, rdVars, bkVars, enVars>>
exceptRd == <<docVars, lkVars, fcVars, emVars, wrVars, spVars, bkVars, enVars>>
exceptBk == <<docVars, lkVars, fcVars, emVars, wrVars, spVars, rdVars, enVars>>
exceptEn == <<docVars, lkVars, fcVars, emVars, wrVars, spVars, rdVars, bkVars>>

\* a Document that is read and written
Init == DocInit /\ LkIdle /\ FcIdle /\ EmIdle /\ OtherIdle
Next ==
    \/ (\E in \in DocInputs : read(in)) /\ UNCHANGED exceptDoc
    \/ write /\ UNCHANGED exceptDoc
    \/ writeTokens /\ UNCHANGED exceptDoc
Spec == Init /\ [][Next]_vars

\* a LinkIds table
LkSpecInit == LkInit /\ DocInit /\ FcIdle /\ EmIdle /\ OtherIdle
LkNext ==
    \/ (\E id \in LkIds, url \in LkUrls, title \in LkTitles : add(id, url, title))
           /\ UNCHANGED exceptLk
    \/ (\E id \in LkIds : find(id)) /\ UNCHANGED exceptLk
LkSpec == LkSpecInit /\ [][LkNext]_vars

\* the fence pass over a text
FcSpecInit == FcInit /\ DocInit /\ LkIdle /\ EmIdle /\ OtherIdle
FcNext ==
    \/ fenceBlock /\ UNCHANGED exceptFc
    \/ fenceKeep /\ UNCHANGED exceptFc
FcSpec == FcSpecInit /\ [][FcNext]_vars

\* the emphasis resolution of a list of markers
EmSpecInit == EmInit /\ DocInit /\ LkIdle /\ FcIdle /\ OtherIdle
EmNext ==
    \/ emOpen /\ UNCHANGED <<exceptEm, wrVars>>
    \/ emScanEnd /\ UNCHANGED <<exceptEm, wrVars>>
    \/ emInnerEnd /\ UNCHANGED <<exceptEm, wrVars>>
    \/ emSplitClose /\ UNCHANGED <<exceptEm, wrVars>>
    \/ emMatch /\ UNCHANGED <<exceptEm, wrVars>>
    \/ emSplitOpen /\ UNCHANGED <<exceptEm, wrVars>>
    \/ emPass /\ UNCHANGED <<exceptEm, wrVars>>
    \/ emPush /\ UNCHANGED <<exceptEm, wrVars>>
    \/ emUnmatch /\ UNCHANGED <<exceptEm, wrVars>>
    \/ emPop /\ UNCHANGED <<exceptEm, wrVars>>
    \/ emUnmatchEnd /\ UNCHANGED <<exceptEm, wrVars>>
    \/ emWrite /\ UNCHANGED exceptEm
EmSpec == EmSpecInit /\ [][EmNext]_vars

\* the span resolution of one text
SpSpecInit ==
    SpInit /\ DocInit /\ LkIdle /\ FcIdle /\ EmIdle /\ RdIdle /\ BkIdle /\ EnIdle
SpNext ==
    \/ spAttributes /\ UNCHANGED <<exceptSp, emVars>>
    \/ spCodeSpans /\ UNCHANGED <<exceptSp, emVars>>
    \/ spEscapes /\ UNCHANGED <<exceptSp, emVars>>
    \/ spLinks /\ UNCHANGED <<exceptSp, emVars>>
    \/ spTokens /\ UNCHANGED exceptSp
    \/ emOpen /\ UNCHANGED <<exceptSp, spVars>>
    \/ emScanEnd /\ UNCHANGED <<exceptSp, spVars>>
    \/ emInnerEnd /\ UNCHANGED <<exceptSp, spVars>>
    \/ emSplitClose /\ UNCHANGED <<exceptSp, spVars>>
    \/ emMatch /\ UNCHANGED <<exceptSp, spVars>>
    \/ emSplitOpen /\ UNCHANGED <<exceptSp, spVars>>
    \/ emPass /\ UNCHANGED <<exceptSp, spVars>>
    \/ emPush /\ UNCHANGED <<exceptSp, spVars>>
    \/ emUnmatch /\ UNCHANGED <<exceptSp, spVars>>
    \/ emPop /\ UNCHANGED <<exceptSp, spVars>>
    \/ emUnmatchEnd /\ UNCHANGED <<exceptSp, spVars>>
    \/ spEncode /\ UNCHANGED <<exceptSp, emVars>>
    \/ spWrite /\ UNCHANGED <<exceptSp, emVars>>
SpSpec == SpSpecInit /\ [][SpNext]_vars

\* the read of one stream
RdSpecInit ==
    RdInit /\ DocInit /\ LkIdle /\ FcIdle /\ EmIdle /\ SpIdle /\ BkIdle /\ EnIdle
RdNext ==
    \/ rdLine /\ UNCHANGED exceptRd
    \/ rdEnd /\ UNCHANGED exceptRd
RdSpec == RdSpecInit /\ [][RdNext]_vars

\* the passes over the lines of one container
BkSpecInit ==
    BkInit /\ DocInit /\ LkIdle /\ FcIdle /\ EmIdle /\ SpIdle /\ RdIdle /\ EnIdle
BkNext ==
    \/ bkFenced /\ UNCHANGED exceptBk
    \/ bkMerge /\ UNCHANGED exceptBk
    \/ bkInlineHtml /\ UNCHANGED exceptBk
    \/ bkReference /\ UNCHANGED exceptBk
    \/ bkBlocks /\ UNCHANGED exceptBk
    \/ bkBlockQuote /\ UNCHANGED exceptBk
    \/ bkHorizontalRule /\ UNCHANGED exceptBk
    \/ bkListBlock /\ UNCHANGED exceptBk
    \/ bkHeader /\ UNCHANGED exceptBk
    \/ bkCodeBlock /\ UNCHANGED exceptBk
    \/ bkSwitch /\ UNCHANGED exceptBk
    \/ bkBlocksEnd /\ UNCHANGED exceptBk
    \/ bkParagraphs /\ UNCHANGED exceptBk
BkSpec == BkSpecInit /\ [][BkNext]_vars

\* one call of encodeString
EnSpecInit ==
    EnInit /\ DocInit /\ LkIdle /\ FcIdle /\ EmIdle /\ SpIdle /\ RdIdle /\ BkIdle
EnNext == enEncode /\ UNCHANGED exceptEn
EnSpec == EnSpecInit /\ [][EnNext]_vars

----------------------------------------------------------------------------
(* Properties of the Document                                              *)

\* the lines of a text: what stands before each line break, and what
\* follows the last one when that is not empty.  The inputs of the model
\* hold neither tabs nor carriage returns
RECURSIVE LinesOf(_)
LinesOf(text) ==
    IF text = <<>> THEN <<>>
    ELSE LET breaks == {k \in 1..Len(text) : text[k] = NL}
             cut    == IF breaks = {} THEN Len(text) + 1 ELSE Min(breaks)
         IN  <<SubSeq(text, 1, cut - 1)>> \o LinesOf(SubSeq(text, cut + 1, Len(text)))

\* the texts of a list of line tokens
TextsOfTokens(toks) == [k \in 1..Len(toks) |-> toks[k].text]

\* C1: once a Document has been processed by a write or writeTokens call,
\* every later read returns false and leaves the token tree, the link
\* reference table and the processed flag unchanged
C1_ReadAfterProcessingFails ==
    [][(mProcessed /\ lastCall' = "read")
          => /\ readResult' = FALSE
             /\ mTokenContainer' = mTokenContainer
             /\ mIdTable' = mIdTable
             /\ mProcessed' = mProcessed]_vars

\* a read of some lines was made on a processed Document that holds tokens
\* and a link reference, and returned false
C1_Witness ==
    /\ lastCall = "read" /\ wasProcessed /\ mProcessed
    /\ readInput # <<>> /\ readResult = FALSE
    /\ mTokenContainer.sub # <<>> /\ mIdTable # EmptyTable

\* C2: before the first write every read returns true, also for empty
\* input, and appends the line tokens of its input, in input order, after
\* all tokens of earlier reads, none of which is removed or reordered; read
\* returns false if and only if the document was already processed
C2_ReadAppendsLines ==
    [][lastCall' = "read"
          => /\ readResult' = ~mProcessed
             /\ ~mProcessed =>
                  /\ Len(mTokenContainer'.sub) >= Len(mTokenContainer.sub)
                  /\ SubSeq(mTokenContainer'.sub, 1, Len(mTokenContainer.sub))
                        = mTokenContainer.sub
                  /\ TextsOfTokens(SubSeq(mTokenContainer'.sub,
                                          Len(mTokenContainer.sub) + 1,
                                          Len(mTokenContainer'.sub)))
                        = LinesOf(readInput')
                  /\ \A k \in 1..Len(mTokenContainer'.sub) :
                        mTokenContainer'.sub[k].kind \in {"RawText", "BlankLine"}]_vars

\* a second read, of two lines, was accepted after an earlier read
C2_Witness ==
    /\ lastCall = "read" /\ readResult = TRUE /\ ~mProcessed
    /\ Len(LinesOf(readInput)) = 2
    /\ Len(mTokenContainer.sub) = 3
    /\ TextsOfTokens(SubSeq(mTokenContainer.sub, 2, 3)) = LinesOf(readInput)

\* an empty input was read and accepted
C2_EmptyReadWitness ==
    lastCall = "read" /\ readResult = TRUE /\ readInput = <<>> /\ linesRead # <<>>

\* the order in which C3 names the passes
C3_Order ==
    <<"_processFencedBlocks", "_mergeMultilineHtmlTags",
      "_processInlineHtmlAndReferences", "_processBlocksItems",
      "_processParagraphLines", "processSpanElements">>

\* C3: over any sequence of write and writeTokens calls on one Document the
\* processing passes run exactly once, on the first such call, in the order
\* fenced code, multi-line tags, inline HTML and references, block items,
\* paragraphs, spans; later calls only render the processed tree
C3_PassesRunOnce ==
    /\ [](/\ passLog = IF mProcessed THEN C3_Order ELSE <<>>
          /\ mProcessed <=> (\/ lastCall \in {"write", "writeTokens"}
                             \/ (lastCall = "read" /\ wasProcessed)))
    /\ [][lastCall' \in {"write", "writeTokens"}
             => /\ mProcessed'
                /\ mProcessed => /\ mTokenContainer' = mTokenContainer
                                 /\ mIdTable' = mIdTable
                                 /\ passLog' = passLog]_vars

\* a write was made on a Document that an earlier call had processed, and
\* whose processing had changed the tokens that were read
C3_Witness ==
    /\ lastCall = "write" /\ wasProcessed /\ passLog = C3_Order
    /\ mTokenContainer.sub # linesRead /\ hlCalls # <<>>

----------------------------------------------------------------------------
(* Properties of the link reference table                                  *)

\* the alphabet, in its two cases
SmallLetters ==
    <<"a","b","c","d","e","f","g","h","i","j","k","l","m",
      "n","o","p","q","r","s","t","u","v","w","x","y","z">>
CapitalLetters ==
    <<"A","B","C","D","E","F","G","H","I","J","K","L","M",
      "N","O","P","Q","R","S","T","U","V","W","X","Y","Z">>

\* two ids are equal ignoring letter case: the same length, and at every
\* position the same character or the two cases of one letter
SameIgnoringCase(a, b) ==
    /\ Len(a) = Len(b)
    /\ \A k \in 1..Len(a) :
          \/ a[k] = b[k]
          \/ \E n \in 1..Len(SmallLetters) :
                {a[k], b[k]} = {SmallLetters[n], CapitalLetters[n]}

\* the add() calls made so far with an id equal to id ignoring case
AddsOf(id) == {k \in 1..Len(lkAdds) : SameIgnoringCase(lkAdds[k].id, id)}

\* the target an add() call was given
TargetOfAdd(k) == [url |-> lkAdds[k].url, title |-> lkAdds[k].title]

\* C4, as the claim states it: when add was called twice with ids that are
\* equal after case folding, a following find of that id returns the url
\* and title of the later add
C4_LaterAddOverwrites ==
    (lkFound.called /\ Cardinality(AddsOf(lkFound.id)) >= 2)
        => /\ lkFound.found
           /\ lkFound.target = TargetOfAdd(Max(AddsOf(lkFound.id)))

\* C4, amended: when add was called twice with ids that are equal after
\* case folding, the earlier add stays: a following find of that id returns
\* the url and title of the earliest add
C4_EarliestAddStays ==
    (lkFound.called /\ Cardinality(AddsOf(lkFound.id)) >= 2)
        => /\ lkFound.found
           /\ lkFound.target = TargetOfAdd(Min(AddsOf(lkFound.id)))

\* a find after two adds of ids that differ in case only, with different
\* urls, returned the url of the first
C4_Witness ==
    /\ lkFound.called /\ lkFound.found
    /\ \E i, j \in AddsOf(lkFound.id) :
          /\ i < j
          /\ lkAdds[i].id # lkAdds[j].id
          /\ lkAdds[i].url # lkAdds[j].url
          /\ lkFound.target.url = lkAdds[i].url

\* C5: find is case-insensitive: find(id) returns a stored target exactly
\* when some earlier add used an id equal to id ignoring letter case, the
\* target one of those adds was given, and no match otherwise; find never
\* changes the table
C5_FindIgnoresCase ==
    /\ [](lkFound.called =>
            /\ lkFound.found <=> AddsOf(lkFound.id) # {}
            /\ lkFound.found =>
                  \E k \in AddsOf(lkFound.id) : lkFound.target = TargetOfAdd(k))
    /\ [][lkFound'.called => lkTable' = lkTable]_vars

\* a find of an id that was added in the other case only returned a target
C5_Witness ==
    /\ lkFound.called /\ lkFound.found
    /\ \A k \in 1..Len(lkAdds) : lkAdds[k].id # lkFound.id
    /\ lkFound.target \in {TargetOfAdd(k) : k \in AddsOf(lkFound.id)}

\* a find of an id that no add used, while other ids are stored, returned
\* no match
C5_NoMatchWitness ==
    lkFound.called /\ ~lkFound.found /\ lkAdds # <<>>

----------------------------------------------------------------------------
(* Properties of the fenced code blocks of a Document                      *)

\* an info string carries a language tag when some character of it is not
\* a space
HasLanguageTag(info) == \E k \in 1..Len(info) : info[k] # SP

\* the first whitespace-delimited token of an info string
FirstToken(info) ==
    LET starts == {k \in 1..Len(info) : info[k] # SP}
        stops  == {k \in 1..(Len(info) + 1) :
                      /\ k > Min(starts)
                      /\ (k = Len(info) + 1 \/ info[k] = SP)}
    IN  IF starts = {} THEN <<>> ELSE SubSeq(info, Min(starts), Min(stops) - 1)

\* the fenced code blocks of the lines that were read, as the fence rule
\* finds them, that carry a language tag: what the highlighter is to be
\* called with for each, in the order of the document
TaggedBlockCalls ==
    LET blocks == _processFencedBlocks(linesRead)
        tagged == {k \in 1..Len(blocks) :
                      /\ blocks[k].kind = "FencedCodeBlock"
                      /\ HasLanguageTag(blocks[k].info)}
    IN  {<<k, [code |-> blocks[k].text, language |-> FirstToken(blocks[k].info)]>> :
            k \in tagged}

\* C6: for every fenced code block whose info string carries a language
\* tag, a write passes the raw content of the block to the highlighter
\* exactly once, with the first whitespace-delimited token of the info
\* string as the language: each such call is received as many times as
\* there are tagged blocks that ask for it
C6_TaggedBlocksHighlightedOnce ==
    lastCall = "write" =>
        \A b \in TaggedBlockCalls :
            Cardinality({k \in 1..Len(hlCalls) : hlCalls[k] = b[2]})
                = Cardinality({c \in TaggedBlockCalls : c[2] = b[2]})

\* C7: the highlighter is invoked only for fenced code blocks that have a
\* language tag: every call it receives names a language, and a write of a
\* document whose fences all have no info string, or an info string made
\* only of spaces, makes no call
C7_HighlighterOnlyForTaggedBlocks ==
    /\ \A k \in 1..Len(hlCalls) : hlCalls[k].language # <<>>
    /\ (lastCall = "write" /\ TaggedBlockCalls = {}) => hlCalls = <<>>

----------------------------------------------------------------------------
(* Properties of the fence pass                                            *)

\* the number of spaces a line starts with
LeadingSpaces(line) ==
    Max({k \in 0..Len(line) : \A j \in 1..k : line[j] = SP})

\* the length of the run of the character c that starts at position p
RunLength(line, p, c) ==
    Max({n \in 0..(Len(line) - p + 1) : \A j \in p..(p + n - 1) : line[j] = c})

\* a line closes a fence opened by n characters c: it is indented at most
\* 3 spaces and consists of at least n characters c followed only by
\* spaces or tabs
ClosesFence(line, n, c) ==
    \E s \in 0..3 : \E m \in n..Len(line) :
        /\ s + m <= Len(line)
        /\ \A j \in 1..s : line[j] = SP
        /\ \A j \in (s + 1)..(s + m) : line[j] = c
        /\ \A j \in (s + m + 1)..Len(line) : line[j] \in {SP, "\t"}

\* a content line as the block keeps it: without the indentation of the
\* opening line, as far as the line has it, and with its line break
ContentLine(line, indent) ==
    SubSeq(line, Min({indent, LeadingSpaces(line)}) + 1, Len(line)) \o <<NL>>

\* the block fcOut[k] took the lines behind its opening line up to the
\* first closing line, which it consumed, or all remaining lines
TakesUpToClosingLine(k) ==
    LET open    == fcSpans[k][1]
        last    == fcSpans[k][2]
        line    == fcTokens[open].text
        indent  == LeadingSpaces(line)
        c       == line[indent + 1]
        n       == RunLength(line, indent + 1, c)
        closers == {j \in (open + 1)..Len(fcTokens) :
                       ClosesFence(fcTokens[j].text, n, c)}
        stop    == IF closers = {} THEN Len(fcTokens) + 1 ELSE Min(closers)
    IN  /\ n >= 3
        /\ last = IF closers = {} THEN Len(fcTokens) ELSE stop
        /\ fcOut[k].text =
              Concat([j \in 1..(stop - open - 1) |->
                         ContentLine(fcTokens[open + j].text, indent)])

\* the pass has gone through all the lines
FencePassDone == fcPos > Len(fcTokens)

\* C8: a fenced block opened by N fence characters c takes as content every
\* following line, blank lines included, up to the first line that is
\* indented at most 3 spaces and consists of at least N characters c
\* followed only by spaces or tabs; that closing line is consumed and is
\* not content; when no such line exists the block takes all remaining
\* lines, and processing still completes: the iterations made so far have
\* each moved the cursor forward, never past the end of the lines
C8_FenceTakesLinesUpToClosingLine ==
    /\ \A k \in 1..Len(fcOut) :
          fcOut[k].kind = "FencedCodeBlock" => TakesUpToClosingLine(k)
    /\ Len(fcSpans) = Len(fcOut)
    /\ \A k \in 1..Len(fcSpans) :
          /\ fcSpans[k][1] = IF k = 1 THEN 1 ELSE fcSpans[k - 1][2] + 1
          /\ fcSpans[k][1] <= fcSpans[k][2]
          /\ fcSpans[k][2] <= Len(fcTokens)
    /\ fcPos = IF fcSpans = <<>> THEN 1 ELSE fcSpans[Len(fcSpans)][2] + 1

\* the pass is done and has made a block that was opened by four fence
\* characters, took a line of three as content and was closed by a line of
\* four
C8_Witness ==
    /\ FencePassDone
    /\ Len(fcOut) = 1
    /\ fcOut[1].kind = "FencedCodeBlock"
    /\ fcSpans[1] = <<1, 3>>
    /\ fcTokens[1].text = <<BQ, BQ, BQ, BQ>>
    /\ fcTokens[2].text = <<BQ, BQ, BQ>>
    /\ fcTokens[3].text = <<BQ, BQ, BQ, BQ>>
    /\ fcOut[1].text = <<BQ, BQ, BQ, NL>>

\* the pass is done and has made a block of one blank line
C8_BlankLineWitness ==
    /\ FencePassDone
    /\ Len(fcOut) = 1
    /\ fcOut[1].kind = "FencedCodeBlock"
    /\ fcSpans[1] = <<1, 3>>
    /\ fcTokens[2].kind = "BlankLine"
    /\ fcOut[1].text = <<NL>>

\* the pass is done and has made a block that no line closed
C8_UnclosedWitness ==
    /\ FencePassDone
    /\ \E k \in 1..Len(fcOut) :
          /\ fcOut[k].kind = "FencedCodeBlock"
          /\ fcSpans[k] = <<1, 3>>
          /\ Len(fcTokens) = 3
          /\ fcOut[k].text # <<>>
          /\ \A j \in 2..3 : ~ClosesFence(fcTokens[j].text, 3, fcTokens[1].text[1])

----------------------------------------------------------------------------
(* Properties of the emphasis resolution                                   *)

\* the resolution has gone through both of its loops
EmphasisDone == emPc = "done"

\* the positions in tgt of the markers that are matched
MatchedAt == {k \in 1..Len(emTgt) : emTgt[k].mMatch # 0}

\* the positions in tgt of the markers with identity uid
PositionsOf(uid) == {k \in 1..Len(emTgt) : emTgt[k].uid = uid}

\* the matched pairs of tgt: <<o, c>> when the open marker at o names the
\* marker at c as its match
MatchedPairs ==
    {<<o, c>> \in (1..Len(emTgt)) \X (1..Len(emTgt)) :
        /\ emTgt[o].mOpenMarker
        /\ emTgt[o].mMatch # 0
        /\ emTgt[o].mMatch = emTgt[c].uid}

\* C9: after emphasis resolution the matched delimiter pairs are well
\* nested: for every matched pair the open marker precedes its close marker
\* in document order, and no two distinct matched pairs interleave
C9_MatchedPairsWellNested ==
    EmphasisDone =>
        /\ \A p \in MatchedPairs : p[1] < p[2]
        /\ \A p, q \in MatchedPairs :
              ~(p[1] < q[1] /\ q[1] < p[2] /\ p[2] < q[2])

\* the resolution is done, it had matched two pairs that interleave, and
\* one pair is left matched
C9_Witness ==
    /\ EmphasisDone
    /\ emId = 2
    /\ Cardinality(MatchedPairs) = 1
    /\ Len(emTgt) = 4 /\ emSplits = <<>>
    /\ emTgt[1].mOpenMarker /\ emTgt[2].mOpenMarker
    /\ ~emTgt[3].mOpenMarker /\ ~emTgt[4].mOpenMarker
    /\ emTgt[1].mTokenCharacter = emTgt[3].mTokenCharacter
    /\ emTgt[2].mTokenCharacter = emTgt[4].mTokenCharacter
    /\ emTgt[1].mTokenCharacter # emTgt[2].mTokenCharacter

\* C10, at the end: every marker is unmatched or matched to exactly one
\* other marker; matching is symmetric, one side is an open and the other a
\* close marker, and both have the same character and the same run length
MatchingIsSymmetric ==
    \A k \in MatchedAt :
        /\ Cardinality(PositionsOf(emTgt[k].mMatch)) = 1
        /\ \A j \in PositionsOf(emTgt[k].mMatch) :
              /\ j # k
              /\ emTgt[j].mMatch = emTgt[k].uid
              /\ emTgt[j].mOpenMarker # emTgt[k].mOpenMarker
              /\ emTgt[j].mTokenCharacter = emTgt[k].mTokenCharacter
              /\ emTgt[j].mSize = emTgt[k].mSize
              /\ emTgt[j].mId = emTgt[k].mId

\* C10, the unmatching: a step of the second loop that changes a marker
\* resets both markers of one matched pair, and no other marker
UnmatchingResetsBoth ==
    (emPc = "unmatch" /\ emTgt' # emTgt) =>
        \E p \in MatchedPairs :
            /\ Len(emTgt') = Len(emTgt)
            /\ emTgt'[p[1]] = [emTgt[p[1]] EXCEPT !.mMatch = 0, !.mId = -1]
            /\ emTgt'[p[2]] = [emTgt[p[2]] EXCEPT !.mMatch = 0, !.mId = -1]
            /\ \A k \in 1..Len(emTgt) : k \notin {p[1], p[2]} => emTgt'[k] = emTgt[k]

\* C10: after emphasis resolution every delimiter marker is either
\* unmatched or matched to exactly one other marker; matching is symmetric,
\* one side is an open and the other a close marker, and both have the same
\* character and the same run length; un-matching an improperly nested pair
\* resets both of its markers
C10_MatchingSymmetricAndReset ==
    /\ [](EmphasisDone => MatchingIsSymmetric)
    /\ [][UnmatchingResetsBoth]_vars

\* the resolution is done, a pair was unmatched and both of its markers are
\* unmatched again, next to a pair that is left matched
C10_Witness ==
    /\ EmphasisDone
    /\ emId = 2
    /\ Cardinality(MatchedPairs) = 1
    /\ Cardinality(MatchedAt) = 2
    /\ \E k \in 1..Len(emTgt) :
          /\ emTgt[k].mOpenMarker /\ emTgt[k].mMatch = 0 /\ ~emTgt[k].mDisabled
          /\ \E j \in (k + 1)..Len(emTgt) :
                /\ ~emTgt[j].mOpenMarker /\ emTgt[j].mMatch = 0
                /\ emTgt[j].mTokenCharacter = emTgt[k].mTokenCharacter
                /\ emTgt[j].mSize = emTgt[k].mSize


----------------------------------------------------------------------------
(* Properties of the rendering of markers                                  *)

\* the list was rendered
MarkersWritten == emPc = "written"

\* the opening tags of a matched run of n characters, outermost first
OpeningTags(n) ==
    IF n = 1 THEN <<"em">> ELSE IF n = 2 THEN <<"strong">> ELSE <<"strong", "em">>

\* the tags as one piece of text: <t> for each in order, or </t> for each in
\* reverse order
TagText(tags, closing) ==
    LET n == Len(tags)
        piece(k) == IF closing THEN "</" \o tags[n + 1 - k] \o ">"
                    ELSE "<" \o tags[k] \o ">"
    IN  IF n = 1 THEN <<piece(1)>> ELSE <<piece(1) \o piece(2)>>

\* C11: a matched pair of run length 1, 2 or 3 renders as <em>, <strong> or
\* <strong><em> at its open marker and as the closing tags in reverse order
\* at its close marker; an unmatched marker that is not disabled renders as
\* its literal characters and a disabled marker renders nothing
C11_MarkersRender ==
    MarkersWritten =>
        /\ Len(emHtml) = Len(emTgt)
        /\ \A k \in 1..Len(emTgt) :
              LET m == emTgt[k] IN
              /\ m.mDisabled => emHtml[k] = <<>>
              /\ (~m.mDisabled /\ m.mMatch = 0) =>
                    /\ Len(emHtml[k]) = m.mSize
                    /\ \A c \in 1..m.mSize : emHtml[k][c] = m.mTokenCharacter
              /\ (~m.mDisabled /\ m.mMatch # 0) =>
                    /\ m.mSize \in 1..3
                    /\ emHtml[k] = TagText(OpeningTags(m.mSize), ~m.mOpenMarker)
                    /\ LET p == posOf(emTgt, m.mMatch) IN
                       emHtml[p] = TagText(OpeningTags(m.mSize), m.mOpenMarker)

\* a rendered list with a matched pair of run length 3
C11_Witness ==
    /\ MarkersWritten
    /\ \E k \in 1..Len(emTgt) :
          /\ emTgt[k].mMatch # 0 /\ emTgt[k].mSize = 3 /\ ~emTgt[k].mOpenMarker
          /\ emHtml[k] = <<"</em></strong>">>

\* a rendered list with a matched pair, a disabled marker and an unmatched one
C11_MixedWitness ==
    /\ MarkersWritten
    /\ \E k \in 1..Len(emTgt) : emTgt[k].mMatch # 0 /\ emTgt[k].mSize < 3
    /\ \E k \in 1..Len(emTgt) : emTgt[k].mDisabled /\ emHtml[k] = <<>>
    /\ \E k \in 1..Len(emTgt) :
          ~emTgt[k].mDisabled /\ emTgt[k].mMatch = 0 /\ emHtml[k] # <<>>

----------------------------------------------------------------------------
(* Properties of the span resolution of a text                             *)

\* the text is made of letters, spaces and backslash pairs only, with
\* perhaps a backslash at its end: every character that means markup is
\* behind a backslash
RECURSIVE onlyEscapes(_)
onlyEscapes(text) ==
    IF text = <<>> THEN TRUE
    ELSE IF text[1] = "\\"
    THEN Len(text) = 1 \/ onlyEscapes(Sub(text, 3, Len(text) + 1))
    ELSE text[1] \in {"a", "b", SP} /\ onlyEscapes(Tail(text))

\* what such a text is to render as: the character behind the backslash
\* alone when it is an escapable one, the text as it is everywhere else
RECURSIVE unescaped(_)
unescaped(text) ==
    IF text = <<>> THEN <<>>
    ELSE IF text[1] = "\\" /\ Len(text) >= 2
    THEN (IF text[2] \in Escapable THEN <<text[2]>> ELSE <<"\\", text[2]>>)
         \o unescaped(Sub(text, 3, Len(text) + 1))
    ELSE <<text[1]>> \o unescaped(Tail(text))

\* the number of * and _ of the text that no backslash escapes
RECURSIVE plainMarkerChars(_)
plainMarkerChars(text) ==
    IF text = <<>> THEN 0
    ELSE IF text[1] = "\\" THEN plainMarkerChars(Sub(text, 3, Len(text) + 1))
    ELSE (IF text[1] \in {"*", "_"} THEN 1 ELSE 0) + plainMarkerChars(Tail(text))

\* the number of characters the markers of the list were made of
RECURSIVE markerChars(_)
markerChars(tgt) ==
    IF tgt = <<>> THEN 0
    ELSE (IF isMarker(tgt[1]) THEN tgt[1].mSize ELSE 0) + markerChars(Tail(tgt))

\* C12: a backslash before an escapable character renders as that character
\* alone, a backslash before any other character and a backslash at the end
\* of the text are written unchanged, and no escaped * or _ is made into an
\* emphasis marker: the markers are made of unescaped characters only.
C12_EscapesRenderLiterally ==
    /\ (spPc = "written" /\ onlyEscapes(spText)) => spOut = unescaped(spText)
    /\ spPc = "markers" => markerChars(spTgt) <= plainMarkerChars(spText)

\* C12, where it holds: the same for the texts in which no two escaped grave
\* accents can pair up as the ends of a code span.
C12_HoldsWithoutGraveAccents ==
    /\ (spPc = "written" /\ onlyEscapes(spText)
            /\ Cardinality({k \in 1..Len(spText) : spText[k] = BQ}) < 2)
          => spOut = unescaped(spText)
    /\ spPc = "markers" => markerChars(spTgt) <= plainMarkerChars(spText)

\* an escaped * next to a run that is a marker: the text came out with the
\* star as a character inside the emphasis
C12_StarWitness ==
    /\ spPc = "written"
    /\ spText = <<"*", "a", "\\", "*", "*">>
    /\ spOut = <<"<em>", "a", "*", "</em>">>

\* the text has brackets, letters and spaces only: no markup but reference
\* links and images
bracketText(text) ==
    \A k \in 1..Len(text) : text[k] \in {"[", "]", "!", "a", "b", "l", "n", "x", "X", SP}

\* C13: a reference link or image whose id the table does not hold renders as
\* its source text: a text all of whose candidates are unresolved is written
\* as it is, and behind the first character of an unresolved candidate the
\* text renders as it would on its own, links of the remaining text included.
C13_UnresolvedReferenceIsLiteral ==
    (spPc = "written" /\ bracketText(spText)) =>
        LET m == regex_search(spText, cExpression, 8)
            rest == Sub(spText, m.a + 1, Len(spText) + 1)
        IN  /\ spIdTable = EmptyTable => spOut = spText
            /\ (m.ok /\ ~linkOrTag(spText, m, <<>>, spIdTable).resolved)
                  => spOut = Sub(spText, 1, m.a + 1)
                             \o spansHtml(spansOf(rest, spIdTable))

\* [l][n][x] with x in the table: [l] is written as it is and the text
\* behind its first bracket gave the link [n][x]
C13_Witness ==
    /\ spPc = "written"
    /\ spText = <<"[", "l", "]", "[", "n", "]", "[", "x", "]">>
    /\ spIdTable # EmptyTable
    /\ spOut = <<"[", "l", "]">> \o HtmlAnchorTag(<<"/", "y">>, <<"T">>).text
               \o <<"n", "<", "/", "a", ">">>

\* [l][n] with no n in the table came out as [l][n]
C13_LiteralWitness ==
    /\ spPc = "written"
    /\ spText = <<"[", "l", "]", "[", "n", "]">>
    /\ spOut = spText
    /\ Len(spReplacements) = 2
    /\ \A k \in 1..2 : spReplacements[k] = RawText(<<"[">>)

----------------------------------------------------------------------------
(* Properties of link reference definitions in a Document                  *)

\* the definition line [x]: p "T" and the link [l][X] that uses its id in
\* capital letters
DefinitionLine == <<"[", "x", "]", ":", SP, "p", SP, DQ, "T", DQ>>
UseLine == <<"[", "l", "]", "[", "X", "]">>

\* the lines of a document whose definitions are all at the top level: no
\* fence and no HTML block that could hold them
TopLevelLines == {DefinitionLine, UseLine, <<"x">>, <<>>, <<">", SP, "x">>}

\* what the leaves of the token tree write, in the order of the stream; the
\* tags and line breaks that the containers put around them are left out
RECURSIVE writtenText(_)
writtenText(tok) ==
    IF isContainer(tok) \/ tok.kind = "Container"
    THEN Concat([k \in 1..Len(tok.sub) |-> writtenText(tok.sub[k])])
    ELSE spanHtml(tok)

\* what each source line is to give: nothing for a definition and for an
\* empty line, the anchor with the stored url and title for the link when
\* the document holds the definition anywhere, the text for the others
textOfLine(line, defined) ==
    IF line = DefinitionLine \/ line = <<>> THEN <<>>
    ELSE IF line = UseLine
    THEN IF defined
         THEN <<"<a href=\"", "p", DQ, " title=\"", "T", DQ, ">", "l", "<", "/", "a", ">">>
         ELSE UseLine
    ELSE <<"x">>

\* the source lines of the Document hold the line
Read(line) == \E k \in 1..Len(linesRead) : linesRead[k].text = line

\* C14: a link reference definition at the top level is taken out of the
\* token stream and writes nothing, and a reference link that names its id
\* in another letter case is written as the anchor with the stored url and
\* title, wherever in the document the definition stands.
C14_DefinitionsResolveLinks ==
    (mProcessed /\ \A k \in 1..Len(linesRead) : linesRead[k].text \in TopLevelLines)
    => /\ writtenText(mTokenContainer)
            = Concat([k \in 1..Len(linesRead) |->
                         textOfLine(linesRead[k].text, Read(DefinitionLine))])
       /\ Read(DefinitionLine)
            => LinkIds_find(mIdTable, <<"x">>)
                  = [found |-> TRUE, target |-> Target(<<"p">>, <<"T">>)]

\* the link was read before the definition, and was written as the anchor
C14_Witness ==
    /\ mProcessed /\ lastCall = "write"
    /\ TextsOfTokens(linesRead) = <<UseLine, <<>>, DefinitionLine>>
    /\ writtenText(mTokenContainer) = textOfLine(UseLine, TRUE)

\* the definition was read before the link
C14_DefinitionFirstWitness ==
    /\ mProcessed /\ lastCall = "write"
    /\ TextsOfTokens(linesRead) = <<DefinitionLine, <<>>, UseLine>>
    /\ writtenText(mTokenContainer) = textOfLine(UseLine, TRUE)

----------------------------------------------------------------------------
(* Properties of the line reader                                           *)

LineBreaks == {NL, "\r"}

\* the lines of a text, scanning left to right: a line break is one of the
\* two line break characters, together with the other one when that follows
\* it; a line ends at each line break, and what follows the last line break
\* is a line when it is not empty
RECURSIVE BrokenLines(_)
BrokenLines(text) ==
    LET at == {k \in 1..Len(text) : text[k] \in LineBreaks}
        k == Min(at)
        pair == k < Len(text) /\ text[k + 1] \in LineBreaks /\ text[k + 1] # text[k]
    IN  IF at = {} THEN (IF text = <<>> THEN <<>> ELSE <<text>>)
        ELSE <<Sub(text, 1, k)>>
             \o BrokenLines(Sub(text, k + (IF pair THEN 2 ELSE 1), Len(text) + 1))

NoTab(text) == \A k \in 1..Len(text) : text[k] # "\t"

\* C17: the line reader takes each of \n, \r, \r\n and \n\r as one line
\* break, scanning left to right; it gives an empty line between two line
\* breaks, no line for an empty stream, the unterminated end of the stream as
\* a line when it is not empty, and no line after a last line break.
C17_LineBreaks ==
    (rdPc = "done" /\ NoTab(rdIn)) => TextsOfTokens(rdTgt) = BrokenLines(rdIn)

\* a\r\n\n\r was read: two line breaks, the line a and an empty line
C17_Witness ==
    /\ rdPc = "done"
    /\ rdIn = <<"a", "\r", NL, NL, "\r">>
    /\ TextsOfTokens(rdTgt) = <<<<"a">>, <<>>>>

\* \r\ra was read: an empty line twice, and the unterminated a
C17_FragmentWitness ==
    /\ rdPc = "done"
    /\ rdIn = <<"\r", "\r", "a">>
    /\ TextsOfTokens(rdTgt) = <<<<>>, <<>>, <<"a">>>>

\* " {0,3}(<!--.*--> *)* *": at most 3 spaces, comments <!-- ... --> with
\* spaces behind them, spaces
cCommentBlankLine ==
    Cat(<<Rep(Chr({SP}), 0, 3),
          Star(Cat(<<Lit(<<"<", "!", "-", "-">>), Star(Dot), Lit(<<"-", "-", ">">>),
                     Star(Chr({SP}))>>)),
          Star(Chr({SP}))>>)

\* C18: a line is a BlankLine token exactly when it is made of at most 3
\* leading spaces, then complete <!-- ... --> comments, then spaces only, and
\* a RawText token otherwise; the line <!-- x --> is a BlankLine.
C18_BlankLineClassification ==
    \A k \in 1..Len(rdTgt) :
        rdTgt[k].kind = IF RegexMatch(cCommentBlankLine, rdTgt[k].text)
                        THEN "BlankLine" ELSE "RawText"

\* the line <!-- x --> was read and is a RawText token
C18_CommentLineIsRawText ==
    /\ rdPc = "done"
    /\ rdIn = <<"<", "!", "-", "-", SP, "x", SP, "-", "-", ">">>
    /\ rdTgt = <<RawText(rdIn)>>

\* the line <-- x --> was read and is a BlankLine token
C18_OtherMarkIsBlank ==
    /\ rdPc = "done"
    /\ rdIn = <<"<", "-", "-", SP, "x", SP, "-", "-", ">">>
    /\ rdTgt = <<BlankLine(rdIn)>>

\* a line without the character < is a BlankLine token exactly when it
\* holds spaces only
C18_HoldsWithoutComments ==
    \A k \in 1..Len(rdTgt) :
        NoTab(rdIn) /\ (\A j \in 1..Len(rdTgt[k].text) : rdTgt[k].text[j] # "<")
        => ((rdTgt[k].kind = "BlankLine")
                <=> \A j \in 1..Len(rdTgt[k].text) : rdTgt[k].text[j] = SP)

----------------------------------------------------------------------------
(* Properties of the block passes over a container                         *)

\* the passes as Document::_process runs them over the lines, up to the
\* paragraph pass
processedBlocks(lines) ==
    LET paragraphs(c) == _processParagraphLines(_processBlocksItems(c))
        references(w) == paragraphs(Group("Container", w.toks))
        merged(toks) == references(_processInlineHtmlAndReferences(toks, EmptyTable))
    IN  merged(_mergeMultilineHtmlTags(_processFencedBlocks(lineTokens(lines))))

\* the passes taken one recognizer call at a time leave what the passes
\* leave when they are run whole
CallByCallAgrees == bkPc = "done" /\ bkIn # <<>> => bkOut = processedBlocks(bkIn)

\* the lines of a container that is one list and nothing else: item lines
\* of one marker with the letters of their places, at least two of them,
\* the first line an item, and no two empty lines in a row
ItemLine(marker, k) == marker \o <<SP, LineLetter(k)>>
ListMarkers == {<<"-">>, <<"+">>, <<"1", ".">>}
ItemPlaces(lines) == {k \in 1..Len(lines) : lines[k] # <<>>}
IsListOf(marker, lines) ==
    /\ Cardinality(ItemPlaces(lines)) >= 2
    /\ lines[1] # <<>>
    /\ \A k \in ItemPlaces(lines) : lines[k] = ItemLine(marker, k)
    /\ \A k \in 1..(Len(lines) - 1) : lines[k] # <<>> \/ lines[k + 1] # <<>>
IsList(lines) == \E marker \in ListMarkers : IsListOf(marker, lines)

\* an empty line separates two items
BlankBetweenItems(lines) ==
    \E k \in 2..(Len(lines) - 1) : lines[k] = <<>>

\* the item of the line at place k as the paragraph pass leaves it in a
\* loose and in a tight list
LooseItem(k) ==
    [ListItem(<<Group("Paragraph", <<RawText(<<LineLetter(k)>>)>>)>>)
        EXCEPT !.info = <<FALSE>>]
TightItem(k) == ListItem(<<RawText(<<LineLetter(k)>>)>>)

\* the k-th smallest element of a set of numbers
RECURSIVE Nth(_, _)
Nth(S, k) == IF k = 1 THEN Min(S) ELSE Nth(S \ {Min(S)}, k - 1)

\* C15: a container that is one list becomes one list token with one item
\* for every item line; when an empty line separates two items, every item,
\* also the ones before the empty line, holds its text in a Paragraph, and
\* when there is no empty line between items every item holds its text
\* without a Paragraph
C15_LooseAndTightLists ==
    bkPc = "done" /\ IsList(bkIn) =>
        /\ Len(bkOut.sub) = 1
        /\ bkOut.sub[1].kind \in {"UnorderedList", "OrderedList"}
        /\ Len(bkOut.sub[1].sub) = Cardinality(ItemPlaces(bkIn))
        /\ \A j \in 1..Len(bkOut.sub[1].sub) :
               bkOut.sub[1].sub[j] =
                   IF BlankBetweenItems(bkIn) THEN LooseItem(Nth(ItemPlaces(bkIn), j))
                   ELSE TightItem(Nth(ItemPlaces(bkIn), j))

\* the list - a, - b, empty line, - c is loose in all its three items
C15_Witness ==
    /\ bkPc = "done"
    /\ bkIn = <<ItemLine(<<"-">>, 1), ItemLine(<<"-">>, 2), <<>>, ItemLine(<<"-">>, 4)>>
    /\ bkOut.sub = <<Group("UnorderedList", <<LooseItem(1), LooseItem(2), LooseItem(4)>>)>>

\* the list - a, - b is tight
C15_TightWitness ==
    /\ bkPc = "done"
    /\ bkIn = <<ItemLine(<<"-">>, 1), ItemLine(<<"-">>, 2)>>
    /\ bkOut.sub = <<Group("UnorderedList", <<TightItem(1), TightItem(2)>>)>>

\* the quote level of a line of the containers: the count of > in its prefix
QuoteLevel(line) ==
    IF line # <<>> /\ line[1] = ">"
    THEN countQuoteLevel(SubSeq(line, 1, Len(line) - 1))
    ELSE 0

\* the counts of BlockQuote containers around the tokens of toks, d
\* containers deep already, whose text holds the letter x
RECURSIVE QuoteDepths(_, _, _)
QuoteDepths(toks, x, d) ==
    UNION { IF hasText(toks[k])
            THEN IF \E j \in 1..Len(toks[k].text) : toks[k].text[j] = x
                 THEN {d} ELSE {}
            ELSE QuoteDepths(toks[k].sub, x,
                             IF toks[k].kind = "BlockQuote" THEN d + 1 ELSE d)
            : k \in 1..Len(toks) }

\* the line at place k is, after the block item pass, inside as many
\* BlockQuote containers as its prefix holds >
NestedAsQuoted(k) ==
    QuoteDepths(bkSt.processed, LineLetter(k), 0) = {QuoteLevel(bkIn[k])}

\* a container of quoted lines only
OnlyQuotedLines(lines) == \A k \in 1..Len(lines) : QuoteLevel(lines[k]) > 0

\* C16: after block item parsing every quoted line of a container of quoted
\* lines is nested inside exactly as many BlockQuote containers as its
\* prefix holds > markers
C16_QuoteLevelIsNesting ==
    bkPc = "done" /\ OnlyQuotedLines(bkIn) =>
        \A k \in 1..Len(bkIn) : NestedAsQuoted(k)

\* the line >> a that starts a quote run is inside one BlockQuote
C16_LevelTwoFirst ==
    /\ bkPc = "done"
    /\ bkIn = << <<">", ">", SP, "a">> >>
    /\ bkSt.processed = <<Group("BlockQuote", <<RawText(<<"a">>)>>)>>

\* in > a, >> b, > c the line > c is inside two BlockQuote containers
C16_LevelOneAfterTwo ==
    /\ bkPc = "done"
    /\ bkIn = << <<">", SP, "a">>, <<">", ">", SP, "b">>, <<">", SP, "c">> >>
    /\ QuoteDepths(bkSt.processed, "c", 0) = {2}

\* the levels of a quote run that starts at level 1 and never falls are the
\* nesting of its lines
C16_HoldsForRisingLevels ==
    bkPc = "done" /\ OnlyQuotedLines(bkIn) /\ QuoteLevel(bkIn[1]) = 1
    /\ (\A k \in 1..(Len(bkIn) - 1) : QuoteLevel(bkIn[k]) <= QuoteLevel(bkIn[k + 1]))
    => \A k \in 1..Len(bkIn) : NestedAsQuoted(k)

\* > a, >> b gives a BlockQuote with a and a BlockQuote with b in it
C16_NestedWitness ==
    /\ bkPc = "done"
    /\ bkIn = << <<">", SP, "a">>, <<">", ">", SP, "b">> >>
    /\ bkSt.processed =
           <<Group("BlockQuote",
                   <<RawText(<<"a">>), Group("BlockQuote", <<RawText(<<"b">>)>>)>>)>>

\* how often the letter x stands in the texts of the tokens of toks and of
\* the tokens in them
RECURSIVE LetterCount(_, _)
LetterCount(toks, x) ==
    LET count(k) ==
            IF hasText(toks[k])
            THEN Cardinality({j \in 1..Len(toks[k].text) : toks[k].text[j] = x})
            ELSE LetterCount(toks[k].sub, x)
        sum[k \in 0..Len(toks)] == IF k = 0 THEN 0 ELSE sum[k - 1] + count(k)
    IN  sum[Len(toks)]

\* the letters of the lines of the containers
LineLetters == {LineLetter(k) : k \in 1..MaxBkLines}

\* the letters of the token at place k of the list the block item pass
\* goes over stand in its output exactly once
KeptOnce(k) ==
    \A x \in LineLetters :
        LetterCount(<<bkToks[k]>>, x) = 1 => LetterCount(bkSt.processed, x) = 1

\* C19: the block item pass over a container drops and duplicates no line:
\* the text of every token that holds text and is no blank line is in the
\* output exactly once, in a recognized construct or copied
C19_NoLineDroppedOrDuplicated ==
    bkPc = "done" =>
        \A k \in 1..Len(bkToks) :
            hasText(bkToks[k]) /\ ~tokIsBlankLine(bkToks[k]) => KeptOnce(k)

\* - a, - b, + c: the list of a and b is recognized and the line + c, which
\* ends it, is nowhere in the output
C19_ListEndDropped ==
    /\ bkPc = "done"
    /\ bkIn = <<ItemLine(<<"-">>, 1), ItemLine(<<"-">>, 2), ItemLine(<<"+">>, 3)>>
    /\ bkSt.processed =
           <<Group("UnorderedList",
                   <<ListItem(<<RawText(<<"a">>)>>), ListItem(<<RawText(<<"b">>)>>)>>)>>

\* the item lines of a container are all of one marker and not indented
ItemsOfOneList(lines) ==
    \E marker \in ListMarkers :
        \A k \in 1..Len(lines) :
            (\E m \in ListMarkers : lines[k] = ItemLine(m, k))
            \/ lines[k] = <<SP>> \o ItemLine(<<"-">>, k)
            => lines[k] = ItemLine(marker, k)

\* no line is dropped or duplicated when no list is ended by an item line
\* of another list
C19_HoldsForOneList ==
    bkPc = "done" /\ ItemsOfOneList(bkIn) =>
        \A k \in 1..Len(bkToks) :
            hasText(bkToks[k]) /\ ~tokIsBlankLine(bkToks[k]) => KeptOnce(k)

\* - a, - b, empty line, c: the list and the line c are both in the output
C19_KeptWitness ==
    /\ bkPc = "done"
    /\ bkIn = <<ItemLine(<<"-">>, 1), ItemLine(<<"-">>, 2), <<>>, <<"d">>>>
    /\ LetterCount(bkSt.processed, "d") = 1
    /\ bkSt.processed[1].kind = "UnorderedList"

C20_SingleLineHtmlWitness ==
    /\ bkIn = << <<"<", "q", ">", "a">> >>
    /\ bkCall.name = "parseInlineHtml"
    /\ ~bkCall.ok
    /\ bkPos = 1

\* every one of the eight recognizers is seen to report no match
RecognizerNames ==
    {"parseFencedCodeBlock", "parseInlineHtml", "parseReference",
     "parseBlockQuote", "parseHorizontalRule", "parseListBlock", "parseHeader",
     "parseCodeBlock"}
C20_NoMatchOf(name) == bkCall.name = name /\ ~bkCall.ok
C20_MatchOf(name) == bkCall.name = name /\ bkCall.ok

----------------------------------------------------------------------------
(* Properties of the markers that the splitting makes                      *)

\* the markers the list started with: the splitting numbers its markers
\* from emNext on, two for each split
InitialMarkers ==
    {k \in 1..Len(emTgt) : emTgt[k].uid < emNext - 2 * Len(emSplits)}

\* the 3-runs of the input
ThreeRuns == {k \in InitialMarkers : emTgt[k].mSize = 3}

\* the markers made by a split
SplitMarkers == {k \in 1..Len(emTgt) : k \notin InitialMarkers}

\* C22: every emphasis delimiter marker that exists during or after the
\* emphasis resolution, also each marker made by splitting a 3-run, has a
\* run length of 1, 2 or 3, and the run lengths of the two markers of a
\* split add up to 3
C22_MarkerRunLengths ==
    /\ \A k \in 1..Len(emTgt) : emTgt[k].mSize \in 1..3
    /\ \A s \in 1..Len(emSplits) :
          emSplits[s].sizes[1] + emSplits[s].sizes[2] = 3

\* a 3-run open marker met a 3-run close marker of the other character and
\* was split into a marker of run length 0 and one of run length 3
C22_EmptyMarker ==
    /\ Len(emSplits) = 1
    /\ emSplits[1].sizes = <<0, 3>>
    /\ \E k \in SplitMarkers : emTgt[k].mOpenMarker /\ emTgt[k].mSize = 0
    /\ \E k \in ThreeRuns, j \in ThreeRuns :
          /\ k < j
          /\ emTgt[k].mOpenMarker /\ emTgt[k].mDisabled
          /\ ~emTgt[j].mOpenMarker
          /\ emTgt[j].mTokenCharacter # emTgt[k].mTokenCharacter

\* no list holds a 3-run open marker before a 3-run close marker of the
\* other character
NoThreeRunsOfTwoCharacters ==
    \A k \in ThreeRuns, j \in ThreeRuns :
        (k < j /\ emTgt[k].mOpenMarker /\ ~emTgt[j].mOpenMarker)
            => emTgt[j].mTokenCharacter = emTgt[k].mTokenCharacter

\* the part of C22 that holds: the two markers of a split always add up to
\* 3 and no marker is longer than 3; every marker has a run length of 1, 2
\* or 3 when no 3-run open marker stands before a 3-run close marker of the
\* other character
C22_HoldsForOneCharacter ==
    /\ \A s \in 1..Len(emSplits) :
          emSplits[s].sizes[1] + emSplits[s].sizes[2] = 3
    /\ \A k \in 1..Len(emTgt) : emTgt[k].mSize \in 0..3
    /\ NoThreeRunsOfTwoCharacters =>
          \A k \in 1..Len(emTgt) : emTgt[k].mSize \in 1..3

\* a close marker of run length 3 was split for an open marker of run
\* length 1 into markers of run lengths 2 and 1
C22_SplitWitness ==
    /\ NoThreeRunsOfTwoCharacters
    /\ \E s \in 1..Len(emSplits) : emSplits[s].sizes = <<2, 1>>
    /\ \E k \in SplitMarkers : ~emTgt[k].mOpenMarker /\ emTgt[k].mSize = 2

\* C26: the emphasis matching scan ends for every finite list of text and
\* markers: each split disables one 3-run and makes only markers that are
\* not split again, so there are at most as many splits as the input has
\* 3-runs, also when a 3-run open marker meets a 3-run close marker of the
\* other character
C26_SplitsBoundedByThreeRuns ==
    /\ Len(emSplits) <= Cardinality(ThreeRuns)
    /\ \A s \in 1..Len(emSplits) :
          \E k \in ThreeRuns : emTgt[k].uid = emSplits[s].of

\* a marker made by a split was split itself: the close marker of run
\* length 3 that the split for an open marker of run length 0 left
C26_SplitOfSplitMarker ==
    \E s \in 1..Len(emSplits) :
        /\ emSplits[s].sizes = <<3, 0>>
        /\ \E k \in SplitMarkers :
              /\ emTgt[k].uid = emSplits[s].of
              /\ ~emTgt[k].mOpenMarker /\ emTgt[k].mSize = 3 /\ emTgt[k].mDisabled

\* the inner loop stands where it stood one split before: behind a disabled
\* close marker of run length 3 it finds a close marker of run length 3
\* that was made for the open marker of run length 0 it is looking for
C26_ScanRepeats ==
    /\ emPc = "inner"
    /\ Len(emSplits) = MaxSplits
    /\ emTgt[emI].mSize = 0
    /\ emSplits[MaxSplits].sizes = <<3, 0>>
    /\ emSplits[MaxSplits - 1].sizes = <<3, 0>>
    /\ emJ <= Len(emTgt)
    /\ isUnmatchedCloseMarker(emTgt[emJ])
    /\ splitsClose(emTgt[emJ], emTgt[emI])

\* the part of C26 that holds: with no 3-run open marker before a 3-run
\* close marker of the other character only 3-runs of the input are split,
\* each at most once
C26_HoldsForOneCharacter ==
    NoThreeRunsOfTwoCharacters =>
        /\ Len(emSplits) <= Cardinality(ThreeRuns)
        /\ \A s \in 1..Len(emSplits) :
              /\ \E k \in ThreeRuns : emTgt[k].uid = emSplits[s].of
              /\ \A t \in 1..Len(emSplits) :
                    emSplits[t].of = emSplits[s].of => t = s

----------------------------------------------------------------------------
(* Properties of encodeString                                              *)

HexDigit == Digit \cup {"a", "b", "c", "d", "e", "f", "A", "B", "C", "D", "E", "F"}

\* the text from position k on begins with the characters of t
BeginsWith(s, k, t) ==
    /\ k + Len(t) - 1 <= Len(s)
    /\ \A j \in 1..Len(t) : s[k + j - 1] = t[j]

\* the text from position k on begins with lo to hi characters of the set
\* cs and then with ';'
BeginsWithRun(s, k, cs, lo, hi) ==
    \E n \in lo..hi :
        /\ k + n <= Len(s)
        /\ \A j \in k..(k + n - 1) : s[j] \in cs
        /\ s[k + n] = ";"

\* the text from the ampersand at k on begins with &amp;, with &# 1 to 3
\* digits and ';', or with &#x (x of the set xs) 1 to 2 hex digits and ';'
BeginsWithEntity(s, k, xs) ==
    \/ BeginsWith(s, k, <<"&", "a", "m", "p", ";">>)
    \/ BeginsWith(s, k, <<"&", "#">>) /\ BeginsWithRun(s, k + 2, Digit, 1, 3)
    \/ /\ BeginsWith(s, k, <<"&", "#">>)
       /\ k + 2 <= Len(s) /\ s[k + 2] \in xs
       /\ BeginsWithRun(s, k + 3, HexDigit, 1, 2)

\* what each character of src is to be written as when only the entities
\* that start at an ampersand count
AmpsEscapedByStart(src, xs) ==
    [k \in 1..Len(src) |->
        IF src[k] = "&" /\ ~BeginsWithEntity(src, k, xs) THEN "&amp;" ELSE src[k]]

\* the call was made with ampersand escaping alone
AmpsEncoded == enPc = "done" /\ enFlags = {"cAmps"}

\* a numeric entity starts at a later place of the text than at k
EntityLater(s, k) ==
    \E j \in (k + 1)..Len(s) :
        /\ s[j] = "&"
        /\ BeginsWithEntity(s, j, {"x", "X"})
        /\ ~BeginsWith(s, j, <<"&", "a", "m", "p", ";">>)

\* C24: with ampersand escaping enabled an '&' is written unescaped exactly
\* when the text from that '&' on begins with &amp;, with &# followed by 1
\* to 3 digits and ';', or with &#x followed by 1 to 2 hex digits and ';';
\* every other '&' is written as &amp;, whatever entities come later in the
\* text
C24_AmpersandsEscapedByTheirStart ==
    AmpsEncoded => enOut = AmpsEscapedByStart(enSrc, {"x"})

\* an ampersand that starts no entity was written unescaped in front of a
\* numeric entity
C24_BareAmpersandKept ==
    /\ AmpsEncoded
    /\ enSrc = <<"&", SP, "&", "#", "1", ";">>
    /\ enOut = enSrc

\* the part of C24 that holds: an ampersand is written unescaped when the
\* text begins there with one of the entities (also with &#X), and as
\* &amp; when it does not and no numeric entity starts later in the text
C24_HoldsWithoutLaterEntity ==
    AmpsEncoded =>
        /\ Len(enOut) = Len(enSrc)
        /\ \A k \in 1..Len(enSrc) :
              /\ (enSrc[k] = "&" /\ BeginsWithEntity(enSrc, k, {"x", "X"}))
                    => enOut[k] = "&"
              /\ (/\ enSrc[k] = "&"
                  /\ ~BeginsWithEntity(enSrc, k, {"x", "X"})
                  /\ ~EntityLater(enSrc, k)) => enOut[k] = "&amp;"
              /\ enSrc[k] # "&" => enOut[k] = enSrc[k]

\* an ampersand behind an entity and with none after it was escaped, the
\* entity was not
C24_EscapedWitness ==
    /\ AmpsEncoded
    /\ enSrc = <<"&", "#", "1", ";", "&", "a">>
    /\ enOut = <<"&", "#", "1", ";", "&amp;", "a">>

----------------------------------------------------------------------------
(* Properties of the reads of the list and quote recognizers               *)

\* the token list or a list below it holds the marker of the undefined
\* operation what
RECURSIVE holdsMarker(_, _)
holdsMarker(toks, what) ==
    \E k \in 1..Len(toks) :
        toks[k] = Undefined(what) \/ holdsMarker(toks[k].sub, what)

\* the passes reached the undefined operation what
Met(what) ==
    \/ holdsMarker(bkSt.processed, what)
    \/ holdsMarker(bkSt.accu, what)
    \/ holdsMarker(bkSub.subitem, what)

\* the line is an indented item line: one that startSublistExpression of a
\* list without indentation matches
SublistLine(line) == RegexMatch(startSublistExpression(0), line)

\* the content of an indented item line (with one space on either side of
\* its marker) starts with '*' or '-'
MarkerContent(line) == Len(line) >= 4 /\ line[4] \in {"*", "-"}

\* C27: a line that is classified as the start of a nested sub-list always
\* parses as a list, so the assertion on the recursive call never fails;
\* this includes sub-list item lines whose content starts with '*' or '-'
C27_SublistAlwaysParses == ~Met("parseListBlock: assert(p)")

\* the recursive call on the line " - -b" behind the item "- a" returned no
\* list and the assertion failed
C27_AssertionFails ==
    /\ bkIn = <<<<"-", SP, "a">>, <<SP, "-", SP, "-", "b">>>>
    /\ bkPc = "undefined"
    /\ bkCall.name = "parseListBlock"
    /\ Met("parseListBlock: assert(p)")

\* the part of C27 that holds: the assertion fails only in a container with
\* a sub-list item line whose content starts with '*' or '-'
C27_HoldsForOtherContent ==
    Met("parseListBlock: assert(p)") =>
        \E k \in 1..Len(bkIn) : SublistLine(bkIn[k]) /\ MarkerContent(bkIn[k])

\* a sub-list item line with another content was parsed as a list of its
\* own inside the first item
C27_SublistWitness ==
    /\ bkIn = <<<<"-", SP, "a">>, <<SP, "-", SP, "b">>>>
    /\ bkPc = "switch"
    /\ bkCall.name = "parseListBlock" /\ bkCall.ok
    /\ bkSub.subitem[1].kind = "UnorderedList"
    /\ bkSub.subitem[1].sub[1].sub[2].kind = "UnorderedList"

\* the line holds nothing but spaces
EmptyLine(line) == \A k \in 1..Len(line) : line[k] = SP

\* the line is indented by 8 spaces or more
CodeLine(line) == Len(line) > 8 /\ \A k \in 1..8 : line[k] = SP

\* C28: list parsing never reads a token beyond the end of the token
\* sequence: every lookahead is checked against the end before it is
\* dereferenced, also when an indented code block inside a list item is
\* followed by a blank line that is the last token
C28_NoReadBehindTheEnd == ~Met("parseListBlock: *iii behind the last token")

\* the code block of the item "- a" was followed by a blank line, the last
\* token, and the token behind it was read
C28_ReadBehindTheEnd ==
    /\ bkIn = <<<<"-", SP, "a">>, <<>>,
                <<SP, SP, SP, SP, SP, SP, SP, SP, "c">>, <<>>>>
    /\ bkPc = "undefined"
    /\ bkCall.name = "parseListBlock"
    /\ Met("parseListBlock: *iii behind the last token")

\* the part of C28 that holds: a token behind the end is read only when the
\* container ends with a blank line behind an indented code line
C28_HoldsWithoutBlankLastLine ==
    Met("parseListBlock: *iii behind the last token") =>
        /\ Len(bkIn) >= 4
        /\ EmptyLine(bkIn[Len(bkIn)])
        /\ CodeLine(bkIn[Len(bkIn) - 1])

\* a list whose item holds an indented code block that ends the container
\* was parsed to its end
C28_CodeBlockWitness ==
    /\ bkIn = <<<<"-", SP, "a">>, <<>>,
                <<SP, SP, SP, SP, SP, SP, SP, SP, "c">>>>
    /\ bkPc = "switch"
    /\ bkCall.name = "parseListBlock" /\ bkCall.ok
    /\ bkCall.left.i = 4
    /\ bkSub.subitem[1].sub[1].sub[3] = Tok("CodeBlock", <<"c", NL>>)

\* C29: quote continuation scanning reads text only from tokens that have
\* text: a container token that follows a quote line ends the scan without
\* its absent text being read
C29_QuoteScanReadsOnlyText ==
    ~Met("parseBlockQuote: *text() of a token without text")

\* in the item of "- a", "> b", " - c" the quote line is followed by the
\* sub-list, a token without text, and the scan read its text
C29_AbsentTextRead ==
    /\ bkIn = <<<<"-", SP, "a">>, <<">", SP, "b">>, <<SP, "-", SP, "c">>>>
    /\ bkPc = "undefined"
    /\ holdsMarker(bkSt.processed, "parseBlockQuote: *text() of a token without text")

\* the part of C29 that holds: the scan over the lines of the container
\* itself meets only tokens with text; the absent text is read only in a
\* list item that holds a quote line before a sub-list
C29_HoldsOutsideListItems ==
    /\ ~holdsMarker(bkSt.accu, "parseBlockQuote: *text() of a token without text")
    /\ Met("parseBlockQuote: *text() of a token without text") =>
          \E k \in 1..Len(bkIn), j \in 1..Len(bkIn) :
              /\ k < j
              /\ QuoteLevel(bkIn[k]) > 0
              /\ SublistLine(bkIn[j])

\* a quote scan at the top of a container ended at a line that is not
\* quoted
C29_ScanEndWitness ==
    /\ bkCall.name = "parseBlockQuote" /\ bkCall.ok
    /\ bkCall.left.i = 3
    /\ bkCall.left.i <= Len(bkToks)
    /\ bkPc = "rule"

----------------------------------------------------------------------------
(* Properties of the lists that parseListBlock returns                     *)

ListKinds == {"UnorderedList", "OrderedList"}

\* every list in the token list or below it holds at least one token, all
\* of them ListItems, and every ListItem holds at least one token
RECURSIVE ListsHoldItems(_)
ListsHoldItems(toks) ==
    \A k \in 1..Len(toks) :
        /\ toks[k].kind \in ListKinds =>
              /\ toks[k].sub # <<>>
              /\ \A j \in 1..Len(toks[k].sub) : toks[k].sub[j].kind = "ListItem"
        /\ toks[k].kind = "ListItem" => toks[k].sub # <<>>
        /\ ListsHoldItems(toks[k].sub)

\* the lists below the token list, nested ones too
RECURSIVE ListsIn(_)
ListsIn(toks) ==
    UNION {(IF toks[k].kind \in ListKinds THEN {toks[k]} ELSE {})
           \cup ListsIn(toks[k].sub) : k \in 1..Len(toks)}

\* parseListBlock returned a list and met no undefined operation
ListReturned ==
    /\ bkCall.name = "parseListBlock" /\ bkCall.ok
    /\ bkPc = "switch"
    /\ bkSub.subitem # <<>>

\* C21: every list token that parseListBlock returns, at any nesting depth,
\* holds at least one ListItem, and every ListItem holds at least one
\* content token; an empty list or an empty item is never made
C21_ListsAndItemsNotEmpty ==
    ListReturned =>
        /\ bkSub.subitem[1].kind \in ListKinds
        /\ ListsHoldItems(bkSub.subitem)

\* a returned list of two items whose first item holds a list of its own
C21_Witness ==
    /\ ListReturned
    /\ bkIn = <<<<"-", SP, "a">>, <<SP, "-", SP, "b">>, <<"-", SP, "c">>>>
    /\ Len(bkSub.subitem[1].sub) = 2
    /\ Cardinality(ListsIn(bkSub.subitem)) = 2

\* a returned list that holds one item: an indented item line alone
C21_OneItemWitness ==
    /\ ListReturned
    /\ bkIn = <<<<SP, "-", SP, "a">>>>
    /\ bkSub.subitem[1].sub = <<ListItem(<<RawText(<<"a">>)>>)>>

----------------------------------------------------------------------------
(* Properties of the paragraph pass                                        *)

\* the line is a letter, and a letter followed by two spaces
PlainLine(line) == Len(line) = 1 /\ line[1] \in LineLetters
BreakLine(line) == Len(line) = 3 /\ line[1] \in LineLetters /\ line[2] = SP /\ line[3] = SP

\* the container holds only such lines and empty lines
ParagraphLinesOnly(lines) ==
    \A k \in 1..Len(lines) :
        PlainLine(lines[k]) \/ BreakLine(lines[k]) \/ lines[k] = <<>>

\* the line-break marker
LineBreak == Tok("HtmlTag", <<"b", "r", " ", "/">>)

\* what the lines are to become: a letter for a line, "blank" for an empty
\* line, and "br" behind a line that ends in two spaces and is not the last
\* line of its paragraph
RECURSIVE BreaksByParagraph(_, _)
BreaksByParagraph(lines, k) ==
    IF k > Len(lines) THEN <<>>
    ELSE (IF lines[k] = <<>> THEN <<"blank">>
          ELSE <<lines[k][1]>>
               \o (IF BreakLine(lines[k]) /\ k < Len(lines) /\ lines[k + 1] # <<>>
                   THEN <<"br">> ELSE <<>>))
         \o BreaksByParagraph(lines, k + 1)

\* the same of the tokens the pass made: the tokens of the paragraphs in
\* their order, and the blank lines between them
RECURSIVE BreaksMade(_)
BreaksMade(toks) ==
    IF toks = <<>> THEN <<>>
    ELSE (CASE Head(toks).kind = "Paragraph" -> BreaksMade(Head(toks).sub)
            [] Head(toks).kind = "BlankLine" -> <<"blank">>
            [] Head(toks) = LineBreak -> <<"br">>
            [] OTHER -> <<Head(toks).text[1]>>)
         \o BreaksMade(Tail(toks))

\* no paragraph in the token list or below it ends with a line-break marker
RECURSIVE NoBreakEndsParagraph(_)
NoBreakEndsParagraph(toks) ==
    \A k \in 1..Len(toks) :
        /\ toks[k].kind = "Paragraph" => toks[k].sub[Len(toks[k].sub)] # LineBreak
        /\ NoBreakEndsParagraph(toks[k].sub)

\* C23: in paragraph grouping a line that ends in two or more spaces yields
\* a line-break marker behind it, except when it is the last line of its
\* paragraph: no line-break marker is made at the end of a paragraph, also
\* when the paragraph is followed by a blank line or another block of the
\* same container
C23_BreakExceptAtParagraphEnd ==
    bkPc = "done" =>
        /\ NoBreakEndsParagraph(<<bkOut>>)
        /\ ParagraphLinesOnly(bkIn) =>
              BreaksMade(bkOut.sub) = BreaksByParagraph(bkIn, 1)

\* the paragraph of the line "a  " is followed by an empty line and ends
\* with a line-break marker
C23_BreakAtParagraphEnd ==
    /\ bkPc = "done"
    /\ bkIn = <<<<"a", SP, SP>>, <<>>>>
    /\ bkOut.sub = <<Group("Paragraph", <<RawText(<<"a">>), LineBreak>>),
                     BlankLine(<<>>)>>

\* the part of C23 that holds: the marker is made behind every line that
\* ends in two spaces but the last line of the container, so the statement
\* holds for a container in which no such line stands before an empty line
\* or another block
C23_HoldsAtContainerEnd ==
    (bkPc = "done" /\ ParagraphLinesOnly(bkIn)) =>
        /\ (\A k \in 1..(Len(bkIn) - 1) : BreakLine(bkIn[k]) => bkIn[k + 1] # <<>>)
              => /\ BreaksMade(bkOut.sub) = BreaksByParagraph(bkIn, 1)
                 /\ NoBreakEndsParagraph(<<bkOut>>)
        /\ BreakLine(bkIn[Len(bkIn)]) =>
              bkOut.sub[Len(bkOut.sub)].sub[Len(bkOut.sub[Len(bkOut.sub)].sub)]
                  # LineBreak

\* a paragraph of three lines with a marker behind the first line and none
\* behind the last, which ends in two spaces too
C23_BreakWitness ==
    /\ bkPc = "done"
    /\ bkIn = <<<<"a", SP, SP>>, <<"b">>, <<"c", SP, SP>>>>
    /\ bkOut.sub = <<Group("Paragraph",
                           <<RawText(<<"a">>), LineBreak, RawText(<<"b">>),
                             RawText(<<"c">>)>>)>>

----------------------------------------------------------------------------
(* Properties of the markers of an unordered list                          *)

\* the container holds two or more item lines without indentation, each
\* with one of the markers of the set
UnorderedItems(lines, markers) ==
    /\ Len(lines) >= 2
    /\ \A k \in 1..Len(lines) : \E m \in markers : lines[k] = ItemLine(<<m>>, k)

\* one unordered list with an item for every line
OneListOf(lines) ==
    <<Group("UnorderedList", [k \in 1..Len(lines) |-> TightItem(k)])>>

\* C25: in an unordered list a following line at the same indentation that
\* starts with any marker of the unordered family, also one different from
\* the marker of the first item, is a new item of the same list; it
\* neither ends the list nor turns a list of two lines into plain text
C25_AnyMarkerContinuesList ==
    (bkPc = "done" /\ UnorderedItems(bkIn, {"-", "+"})) =>
        bkOut.sub = OneListOf(bkIn)

\* the lines "- a" and "+ b" became the two lines of one paragraph
C25_TwoLineListIsText ==
    /\ bkPc = "done"
    /\ bkIn = <<<<"-", SP, "a">>, <<"+", SP, "b">>>>
    /\ bkOut.sub = <<Group("Paragraph", <<RawText(<<"-", SP, "a">>),
                                          RawText(<<"+", SP, "b">>)>>)>>

\* the line "+ c" ended the list of "- a" and "- b"
C25_OtherMarkerEndsList ==
    /\ bkPc = "done"
    /\ bkIn = <<<<"-", SP, "a">>, <<"-", SP, "b">>, <<"+", SP, "c">>>>
    /\ bkOut.sub[1] = Group("UnorderedList", <<TightItem(1), TightItem(2)>>)

\* the part of C25 that holds: lines with the marker of the first item are
\* items of one list
C25_HoldsForOneMarker ==
    \A m \in {"-", "+"} :
        (bkPc = "done" /\ UnorderedItems(bkIn, {m})) => bkOut.sub = OneListOf(bkIn)

\* four lines with the marker '+' became one list of four items
C25_OneMarkerWitness ==
    /\ bkPc = "done"
    /\ UnorderedItems(bkIn, {"+"})
    /\ Len(bkIn) = 4
    /\ bkOut.sub = OneListOf(bkIn)

----------------------------------------------------------------------------
(* Properties of the fenced code blocks in the passes behind the first     *)

\* the fenced code blocks of a token list, in their order
FencedOf(toks) == SelectSeq(toks, LAMBDA t : t.kind = "FencedCodeBlock")

\* the fenced code blocks that the first pass makes of the lines
FencedBlocks == FencedOf(_processFencedBlocks(lineTokens(bkIn)))

\* the places at which bkToks is what _mergeMultilineHtmlTags left, and
\* what _processInlineHtmlAndReferences left
BehindMerge == bkPc \in {"html", "reference"}
BehindReferences == bkPc \in {"quote", "rule", "list", "header", "code", "switch"}

\* C30: a fenced code block token made by the first pass goes unchanged
\* through the merge of multi-line HTML tags and through the extraction of
\* inline HTML and references: whatever its content lines look like, it is
\* never removed from the token list, never recorded in the link reference
\* table and never turned into an HTML block
C30_FencedBlocksPassUnchanged ==
    /\ BehindMerge \/ BehindReferences => FencedOf(bkToks) = FencedBlocks
    /\ (BehindMerge /\ bkCall.ok /\ bkCall.name \in {"parseReference", "parseInlineHtml"})
          => \A k \in bkCall.given.i..bkCall.left.i :
                bkToks[k].kind # "FencedCodeBlock"

\* the fenced code block of the lines "```" and "<p>" was turned into an
\* HTML block
C30_FencedBlockInHtmlBlock ==
    /\ bkIn = <<<<BQ, BQ, BQ>>, <<"<", "p", ">">>>>
    /\ BehindReferences
    /\ Len(FencedBlocks) = 1
    /\ Len(bkToks) = 1
    /\ bkToks[1].kind = "InlineHtmlBlock"

\* the fenced code block of the lines "```" and "[b]: u" was removed from
\* the token list and recorded in the link reference table
C30_FencedBlockRecorded ==
    /\ bkIn = <<<<BQ, BQ, BQ>>, <<"[", "b", "]", ":", SP, "u">>>>
    /\ BehindReferences
    /\ Len(FencedBlocks) = 1
    /\ bkToks = <<>>
    /\ bkTable # EmptyTable

\* the line is a block-level tag or a reference definition
TagOrReferenceLine(line) ==
    \/ line = <<"<", "p", ">">>
    \/ Len(line) = 6 /\ line[1] = "[" /\ line[3] = "]" /\ line[4] = ":"

\* the part of C30 that holds: in a container without a block-level tag
\* line and without a reference definition line every fenced code block
\* goes unchanged through the two passes
C30_HoldsForOtherContent ==
    (\A k \in 1..Len(bkIn) : ~TagOrReferenceLine(bkIn[k])) =>
        C30_FencedBlocksPassUnchanged

\* a fenced code block with a header line as content went unchanged
\* through the two passes
C30_KeptWitness ==
    /\ bkIn = <<<<BQ, BQ, BQ>>, <<"#", SP, "b">>>>
    /\ BehindReferences
    /\ bkToks = FencedBlocks
    /\ Len(bkToks) = 1
    /\ bkToks[1].text = <<"#", SP, "b", NL>>

====
